---------------------------- MODULE Spec2Model ----------------------------
(***************************************************************************)
(* Barcode scanner components of l3lasx/poc-barcodescanner.                *)
(*                                                                         *)
(* The programs modelled, each with a specification of its own:            *)
(*                                                                         *)
(*   SpecDebounce  handleScanResult of the Quagga/jsQR component           *)
(*                 (src/unnamed/part_000): the debounce of decode results  *)
(*                 on lastCodeRef / lastCodeTimeRef.                       *)
(*   SpecZXing     the manual-loop ZXing component                         *)
(*                 (src/app/components/BarcodeScanner.tsx, lines 1-386):   *)
(*                 initializeScanner, startScanner with its decodeLoop,    *)
(*                 stopScanner and the unmount cleanup, interleaved with   *)
(*                 the browser's asynchronous completions.                 *)
(*   SpecCameras   the default camera selection of the ZXing components    *)
(*                 and of the html5-qrcode component                       *)
(*                 (src/unnamed/part_001).                                 *)
(*   SpecQuagga    the scanner of the Quagga/jsQR component                *)
(*                 (src/unnamed/part_000): checkPermission, startScanner   *)
(*                 in its three modes, scanFrame and stopScanner.          *)
(*   SpecSwitch    SpecZXing on a device with two cameras, with the camera *)
(*                 selector.                                               *)
(*   SpecFormat    the format name each component reports with a decode    *)
(*                 result.                                                 *)
(*   SpecPage      the page (src/app/page.tsx): handleScanSuccess called   *)
(*                 by the decode loops of the scanner it renders, each     *)
(*                 started by a click on Start and three asynchronous      *)
(*                 steps, the success toast, clearHistory.                 *)
(*                                                                         *)
(* Time is in milliseconds, as Date.now() gives it.                        *)
(***************************************************************************)
EXTENDS Integers, Sequences, FiniteSets

VARIABLES
  \* ---- Quagga/jsQR component, debounce (src/unnamed/part_000) ----
  now,              \* Date.now()
  lastCodeRef,      \* lastCodeRef.current
  lastCodeTimeRef,  \* lastCodeTimeRef.current
  attempts,         \* history: one record per handleScanResult call
  \* ---- manual-loop ZXing component (BarcodeScanner.tsx, lines 1-386) ----
  mounted,          \* the component is mounted
  isIOSDevice,      \* useState(isIOS())
  hasPermission,    \* "null" | "true" | "false"
  initPending,      \* initializeScanner awaits the browser
  permTrack,        \* the track of the permission stream of the running
                    \* initializeScanner: "none" | "live" | "stopped"
  isScanning,       \* useState(false)
  error,            \* "null" | "set"
  readerRef,        \* readerRef.current: 0 (null) or the reader of call i
  resetReaders,     \* the readers reset() was called on
  streamRef,        \* streamRef.current: 0 (null) or the stream of call i
  track,            \* per call, its stream: "none" | "live" | "ended" | "stopped"
  srcObject,        \* video.srcObject: 0 (null) or a stream
  onloadedmetadata, \* video.onloadedmetadata: 0 or the call whose handler it is
  nCalls,           \* startScanner calls made so far
  pc,               \* per call, where startScanner / decodeLoop is suspended
  decReader,        \* per call, the reader its outstanding decodeOnce runs on
  \* ---- history of the ZXing component ----
  stopped,          \* stopScanner has returned and startScanner has not run since
  cbAfterStop,      \* onScanSuccess / onScanError was invoked while stopped
  pendingAtStop,    \* the calls whose camera open was pending at a stopScanner
  closedChains,     \* the decode loops alive when the held stream was closed
  loopedAfterClose, \* one of them started a decode or scheduled a frame since
  openError,        \* per call, the error its first getUserMedia failed with
  nRetries,         \* per call, the fallback getUserMedia requests it issued
  retryFailed,      \* per call, its fallback getUserMedia was rejected
  reported,         \* the calls that invoked onScanError
  faulted,          \* the calls whose decodeOnce failed with an unexpected error
  cameras,          \* useState<MediaDeviceInfo[]>([])
  selectedCamera,   \* useState<string>("")
  requestedCamera,  \* per call, the deviceId its constraints asked for
  triedAgain,       \* history: Try Again was clicked
  nStops,           \* history: per call, the stop() calls on its track
  stopCalls,        \* history: the stopScanner calls made so far
  \* ---- default camera selection (BarcodeScanner.tsx, part_001) ----
  videoDevices,     \* the devices the browser enumerates
  zxPending,        \* ZXing: initializeScanner awaits enumerateDevices
  zxHasPermission,  \* ZXing: hasPermission
  zxCameras,        \* ZXing: cameras
  zxSelectedCamera, \* ZXing: selectedCamera
  h5Pending,        \* html5-qrcode: Html5Qrcode.getCameras() is pending
  h5HasPermission,  \* html5-qrcode: hasPermission
  h5Cameras,        \* html5-qrcode: cameras
  h5SelectedCamera, \* html5-qrcode: selectedCamera
  zxPicked,         \* history: the user picked a camera in the ZXing selector
  h5Picked,         \* history: the same in the html5-qrcode selector
  \* ---- Quagga/jsQR component, scanner (src/unnamed/part_000) ----
  qMounted,         \* the component is mounted
  qHasPermission,   \* hasPermission: "null" | "true" | "false"
  qPermPending,     \* checkPermission awaits getUserMedia
  qIsScanning,      \* isScanning
  qError,           \* error: "null" | "set"
  scanMode,         \* "barcode" | "qrcode" | "both"
  qStreamRef,       \* streamRef.current: 0 (null) or the stream of call k
  qTrack,           \* per call, its stream: "none" | "live" | "ended" | "stopped"
  qSrcObject,       \* video.srcObject: 0 (null) or a stream
  qrAnimationRef,   \* qrAnimationRef.current: 0 or the call whose scanFrame
                    \* request was stored last
  quaggaRunning,    \* Quagga was started with a detection handler
  qHandlers,        \* the handlers subscribed with Quagga.onDetected
  qnCalls,          \* startScanner calls made so far
  qpc,              \* per call, where startScanner / scanFrame is suspended
  \* ---- history of the Quagga/jsQR component ----
  lastFrame,        \* the last frame scanFrame looked at: "none" | "miss" | "code"
  qOpenFailed,      \* the calls whose camera open failed
  qReported,        \* the calls that invoked onScanError
  qEntered,         \* the calls whose setIsScanning(true) took effect
  qStopped,         \* stopScanner has run and startScanner has not since
  awaitingFirst,    \* a session started after a stop has decoded no text yet
  firstDropped,     \* the first text of such a session was not forwarded
  \* ---- the format reported with a decode result (all components) ----
  formatLog,        \* the calls of onScanSuccess: component, text, format
  \* ---- the page (src/app/page.tsx) ----
  scannedItems,     \* useState<ScannedItem[]>([]), newest first
  lastScan,         \* useState<ScannedItem | null>(null): <<>> when null,
                    \* <<item>> otherwise
  showSuccess,      \* useState(false)
  timers,           \* how many setTimeout callbacks are pending, by deadline
  scannerRunning,   \* isScanning of the scanner the page renders
  pagePc,           \* where each call of the scanner's startScanner stands
  closureItems,     \* scannedItems as the onScanSuccess of each call sees it
  pageReader,       \* readerRef.current of the scanner is set
  pageStream,       \* the call whose stream streamRef and the video hold, or 0
  lastAcceptedAt    \* when the last scan was accepted, 0 before the first

dvars == <<now, lastCodeRef, lastCodeTimeRef, attempts>>

zstate == <<mounted, isIOSDevice, hasPermission, initPending, isScanning, error,
            readerRef, resetReaders, streamRef, track, srcObject,
            onloadedmetadata, nCalls, pc, decReader>>

zhist == <<stopped, cbAfterStop, pendingAtStop, closedChains, loopedAfterClose>>

zperm == <<permTrack>>

zcam == <<cameras, selectedCamera, requestedCamera>>

zuse == <<triedAgain, nStops, stopCalls>>

zout == <<openError, nRetries, retryFailed, reported, faulted>>

zvars == <<zstate, zperm, zhist, zout, zcam, zuse>>

cvars == <<videoDevices, zxPending, zxHasPermission, zxCameras,
           zxSelectedCamera, h5Pending, h5HasPermission, h5Cameras,
           h5SelectedCamera, zxPicked, h5Picked>>

qstate == <<qMounted, qHasPermission, qPermPending, qIsScanning, qError,
            scanMode, qStreamRef, qTrack, qSrcObject, qrAnimationRef,
            quaggaRunning, qHandlers, qnCalls, qpc>>

qhist == <<lastFrame, qOpenFailed, qReported, qEntered>>

qsess == <<qStopped, awaitingFirst, firstDropped>>

qvars == <<qstate, qhist, qsess>>

\* What the actions of one component leave alone: the other components.
fvars == <<formatLog>>

pstate == <<scannedItems, lastScan, showSuccess, timers>>

pscan == <<scannerRunning, pagePc, closureItems, pageReader, pageStream>>

pvars == <<pstate, pscan, lastAcceptedAt>>

dothers == <<zvars, cvars, qvars, fvars, pvars>>

zothers == <<dvars, cvars, qvars, fvars, pvars>>

cothers == <<dvars, zvars, qvars, fvars, pvars>>

qothers == <<zvars, cvars, fvars, pvars>>

fothers == <<zvars, cvars, qvars, pvars>>

pothers == <<zvars, cvars, qvars, fvars>>

vars == <<dvars, zvars, cvars, qvars, fvars, pvars>>

(***************************************************************************)
(* Bounds of the model.                                                    *)
(***************************************************************************)
\* Date.now() when the component is created.
T0 == 10000
\* The clock advances in steps of TickMs.
TickMs == 500
\* The clock stops after MaxTicks steps.
MaxTicks == 6
\* handleScanResult calls in one behaviour.
MaxAttempts == 3
\* startScanner calls in one behaviour.
MaxStarts == 2

\* Devices in an enumerated list.
MaxDevices == 3

\* Decoded texts: the empty text and two codes.
Codes == {"", "A", "B"}

(***************************************************************************)
(* handleScanResult (src/unnamed/part_000, lines 70-91)                    *)
(***************************************************************************)
\* The window of `now - lastCodeTimeRef.current > 2000`.
DebounceMs == 2000

\* A comparison turned the wrong way round.
AcceptsInverted(code, t, last, lastTime) ==
  /\ code # ""
  /\ (code # last \/ t - lastTime < DebounceMs)

\* A window that closes one millisecond early.
AcceptsAtBoundary(code, t, last, lastTime) ==
  /\ code # ""
  /\ (code # last \/ t - lastTime >= DebounceMs)

\* The condition of lines 74-77: `code && (code !== lastCodeRef.current ||
\* now - lastCodeTimeRef.current > 2000)`; the empty string is falsy.
Accepts(code, t, last, lastTime) ==
  /\ code # ""
  /\ (code # last \/ t - lastTime > DebounceMs)

\* The timestamp written on every call, accepted or not.
StoreTimeAlways(ok, t, lastTime) == t

\* `lastCodeTimeRef.current = now` (line 79) sits inside the if: a rejected
\* result leaves the timestamp as it was.
StoreTime(ok, t, lastTime) == IF ok THEN t ELSE lastTime

\* The text written on every call, accepted or not.
StoreCodeAlways(ok, code, last) == code

\* `lastCodeRef.current = code` (line 78), inside the if as well.
StoreCode(ok, code, last) == IF ok THEN code ELSE last

\* One call handleScanResult(code, format) at the current time. The record
\* appended to attempts says whether onScanSuccess(code, format) was called.
handleScanResultBody(code) ==
  /\ Len(attempts) < MaxAttempts
  /\ LET ok == Accepts(code, now, lastCodeRef, lastCodeTimeRef) IN
       /\ lastCodeRef' = StoreCode(ok, code, lastCodeRef)
       /\ lastCodeTimeRef' = StoreTime(ok, now, lastCodeTimeRef)
       /\ attempts' = Append(attempts, [code |-> code, at |-> now, fwd |-> ok])
  /\ UNCHANGED now

\* The debounce state and the record of calls after one call
\* handleScanResult(code, format) at time t.
handleScanResultOn(st, code, t) ==
  LET ok == Accepts(code, t, st.last, st.lastTime) IN
    [last |-> StoreCode(ok, code, st.last),
     lastTime |-> StoreTime(ok, t, st.lastTime),
     attempts |-> Append(st.attempts, [code |-> code, at |-> t, fwd |-> ok])]

\* n calls handleScanResult(code, format) one after the other at time t.
RECURSIVE handleScanResultTimes(_, _, _, _)
handleScanResultTimes(n, code, t, st) ==
  IF n = 0 THEN st
  ELSE handleScanResultTimes(n - 1, code, t, handleScanResultOn(st, code, t))

\* handleScanResult called on its own.
handleScanResult(code) ==
  /\ handleScanResultBody(code)
  /\ UNCHANGED dothers

\* Time passes between two calls.
Tick ==
  /\ now + TickMs <= T0 + MaxTicks * TickMs
  /\ now' = now + TickMs
  /\ UNCHANGED <<lastCodeRef, lastCodeTimeRef, attempts>>
  /\ UNCHANGED dothers

\* useRef<string>("") and useRef<number>(0), lines 38-39.
DInit ==
  /\ now = T0
  /\ lastCodeRef = ""
  /\ lastCodeTimeRef = 0
  /\ attempts = <<>>

DNext ==
  \/ Tick
  \/ \E code \in Codes : handleScanResult(code)

(***************************************************************************)
(* Default camera selection                                                *)
(* (src/app/components/BarcodeScanner.tsx lines 61-80 and 448-467,         *)
(*  src/unnamed/part_001 lines 23-43)                                      *)
(*                                                                         *)
(* A label is the sequence of its characters. A device is a record of its  *)
(* deviceId and label; the html5-qrcode component calls the same two       *)
(* fields id and label. The devices are enumerated after the permission    *)
(* was granted, so every deviceId is a non-empty string, unique in the     *)
(* list; a label can be empty.                                             *)
(***************************************************************************)
UpperCase == 
  <<"A", "B", "C", "D", "E", "F", "G", "H", "I", "J", "K", "L", "M",
    "N", "O", "P", "Q", "R", "S", "T", "U", "V", "W", "X", "Y", "Z">>

LowerCase == 
  <<"a", "b", "c", "d", "e", "f", "g", "h", "i", "j", "k", "l", "m",
    "n", "o", "p", "q", "r", "s", "t", "u", "v", "w", "x", "y", "z">>

\* Characters outside ASCII are written by their code point. The cased
\* ones among the characters of the model's labels: the Kelvin sign, E
\* acute, and I with dot above, whose lower case is two code units long.
OtherUpperCase == <<"U+212A", "U+00C9", "U+0130">>

OtherLowerCase == << <<"k">>, <<"U+00E9">>, <<"i", "U+0307">> >>

\* The characters labels are made of in the model: toLowerCase is modelled
\* on strings over this alphabet.
Characters ==
  {UpperCase[k] : k \in 1 .. 26} \cup {LowerCase[k] : k \in 1 .. 26}
    \cup {OtherUpperCase[k] : k \in 1 .. 3} \cup {" ", "U+00E9", "U+0307"}

\* String.prototype.toLowerCase on a string of one character; the result
\* is a string.
toLowerCaseChar(c) ==
  IF \E k \in 1 .. 26 : UpperCase[k] = c
    THEN <<LowerCase[CHOOSE k \in 1 .. 26 : UpperCase[k] = c]>>
    ELSE IF \E k \in 1 .. 3 : OtherUpperCase[k] = c
      THEN OtherLowerCase[CHOOSE k \in 1 .. 3 : OtherUpperCase[k] = c]
      ELSE <<c>>

\* String.prototype.toLowerCase on a string.
RECURSIVE toLowerCase(_)
toLowerCase(str) ==
  IF str = <<>> THEN <<>>
  ELSE toLowerCaseChar(Head(str)) \o toLowerCase(Tail(str))

\* String.prototype.includes.
includes(str, sub) ==
  \E k \in 0 .. Len(str) - Len(sub) : SubSeq(str, k + 1, k + Len(sub)) = sub

back == <<"b", "a", "c", "k">>

rear == <<"r", "e", "a", "r">>

environment == <<"e", "n", "v", "i", "r", "o", "n", "m", "e", "n", "t">>

\* The predicate of find(), lines 72-75 (part_001 lines 30-33).
isBackCamera(d) ==
  \/ includes(toLowerCase(d.label), back)
  \/ includes(toLowerCase(d.label), rear)
  \/ includes(toLowerCase(d.label), environment)

\* Array.prototype.find as an index: the first device that satisfies the
\* predicate, 0 (undefined) when there is none.
findBackCamera(devices) ==
  IF \E k \in 1 .. Len(devices) : isBackCamera(devices[k])
    THEN CHOOSE k \in 1 .. Len(devices) :
           /\ isBackCamera(devices[k])
           /\ \A m \in 1 .. k - 1 : ~isBackCamera(devices[m])
    ELSE 0

\* `backCamera?.deviceId`: undefined is written "".
optDeviceId(devices, k) == IF k = 0 THEN "" ELSE devices[k].deviceId

\* The fallback on the first device, as a list index.
firstIndex(devices) == 1

\* `videoDevices[videoDevices.length - 1]`, as a list index.
lastIndex(devices) == Len(devices)

\* `backCamera?.deviceId || videoDevices[videoDevices.length - 1].deviceId`,
\* lines 77-79 and 464-465; "" is falsy.
defaultCamera(devices) ==
  IF optDeviceId(devices, findBackCamera(devices)) # ""
    THEN optDeviceId(devices, findBackCamera(devices))
    ELSE devices[lastIndex(devices)].deviceId

\* `backCamera?.id || devices[0].id`, part_001 line 35.
defaultCameraHtml5(devices) ==
  IF optDeviceId(devices, findBackCamera(devices)) # ""
    THEN optDeviceId(devices, findBackCamera(devices))
    ELSE devices[1].deviceId

FrontLabel == <<"F", "r", "o", "n", "t", " ", "C", "a", "m", "e", "r", "a">>

BackLabel == <<"B", "a", "c", "k", " ", "C", "a", "m", "e", "r", "a">>

\* The labels a device can have.
Labels ==
  { <<>>,
    FrontLabel,
    BackLabel,
    <<"R", "E", "A", "R">>,
    <<"E", "n", "v", "i", "r", "o", "n", "m", "e", "n", "t">>,
    <<"B", "A", "C", "U+212A">>,
    <<"R", "U+00C9", "A", "R">> }

\* The device lists: the k-th device has deviceId k, written as a string.
DeviceIds == <<"id1", "id2", "id3", "id4">>

DeviceLists ==
  UNION { { [k \in 1 .. n |-> [deviceId |-> DeviceIds[k], label |-> l[k]]] :
              l \in [1 .. n -> Labels] } : n \in 0 .. MaxDevices }

\* ZXing, initializeScanner lines 49-86: getUserMedia of line 54 or
\* enumerateDevices of line 60 is rejected, and the catch of lines 81-86
\* runs.
zxInitializeScannerRejects ==
  /\ zxPending
  /\ zxPending' = FALSE
  /\ zxHasPermission' = "false"
  /\ UNCHANGED <<videoDevices, zxCameras, zxSelectedCamera, h5Pending,
                 h5HasPermission, h5Cameras, h5SelectedCamera, zxPicked,
                 h5Picked>>
  /\ UNCHANGED cothers

\* ZXing, the Try Again button (lines 249-257 and 571-579), rendered while
\* hasPermission is false: initializeScanner runs again.
zxTryAgain ==
  /\ zxHasPermission = "false"
  /\ zxHasPermission' = "null"
  /\ zxPending' = TRUE
  /\ UNCHANGED <<videoDevices, zxCameras, zxSelectedCamera, h5Pending,
                 h5HasPermission, h5Cameras, h5SelectedCamera, zxPicked,
                 h5Picked>>
  /\ UNCHANGED cothers

\* html5-qrcode, the Try Again button (part_001 lines 123-128), rendered
\* while hasPermission is false: window.location.reload() starts the
\* component afresh.
h5TryAgain ==
  /\ h5HasPermission = "false"
  /\ h5Pending' = TRUE
  /\ h5HasPermission' = "null"
  /\ h5Cameras' = <<>>
  /\ h5SelectedCamera' = ""
  /\ h5Picked' = FALSE
  /\ UNCHANGED <<videoDevices, zxPending, zxHasPermission, zxCameras,
                 zxSelectedCamera, zxPicked>>
  /\ UNCHANGED cothers

\* ZXing, initializeScanner lines 49-86: getUserMedia and enumerateDevices
\* have resolved.
zxInitializeScanner ==
  /\ zxPending
  /\ zxPending' = FALSE
  /\ IF Len(videoDevices) = 0
       THEN /\ zxHasPermission' = "false"
            /\ UNCHANGED <<zxCameras, zxSelectedCamera>>
       ELSE /\ zxCameras' = videoDevices
            /\ zxSelectedCamera' = defaultCamera(videoDevices)
            /\ zxHasPermission' = "true"
  /\ UNCHANGED <<videoDevices, h5Pending, h5HasPermission, h5Cameras,
                 h5SelectedCamera, zxPicked, h5Picked>>
  /\ UNCHANGED cothers

\* html5-qrcode, part_001 lines 25-38: getCameras has resolved.
h5GetCamerasResolves ==
  /\ h5Pending
  /\ h5Pending' = FALSE
  /\ IF Len(videoDevices) = 0
       THEN UNCHANGED <<h5HasPermission, h5Cameras, h5SelectedCamera>>
       ELSE /\ h5Cameras' = videoDevices
            /\ h5SelectedCamera' = defaultCameraHtml5(videoDevices)
            /\ h5HasPermission' = "true"
  /\ UNCHANGED <<videoDevices, zxPending, zxHasPermission, zxCameras,
                 zxSelectedCamera, zxPicked, h5Picked>>
  /\ UNCHANGED cothers

\* html5-qrcode, part_001 lines 39-42: getCameras was rejected.
h5GetCamerasRejects ==
  /\ h5Pending
  /\ h5Pending' = FALSE
  /\ h5HasPermission' = "false"
  /\ UNCHANGED <<videoDevices, zxPending, zxHasPermission, zxCameras,
                 zxSelectedCamera, h5Cameras, h5SelectedCamera, zxPicked,
                 h5Picked>>
  /\ UNCHANGED cothers

\* The deviceIds of a device list: the options of the camera selector.
deviceIdsOf(devices) == {devices[k].deviceId : k \in 1 .. Len(devices)}

\* ZXing, the onChange of the camera selector while nothing is scanning
\* (lines 279-295, and handleCameraChange lines 543-552 with isScanning
\* false): rendered with more than one camera.
zxSelectCamera(id) ==
  /\ zxHasPermission = "true"
  /\ Len(zxCameras) > 1
  /\ id \in deviceIdsOf(zxCameras)
  /\ zxSelectedCamera' = id
  /\ zxPicked' = TRUE
  /\ UNCHANGED <<videoDevices, zxPending, zxHasPermission, zxCameras,
                 h5Pending, h5HasPermission, h5Cameras, h5SelectedCamera,
                 h5Picked>>
  /\ UNCHANGED cothers

\* html5-qrcode, the onChange of the camera selector while nothing is
\* scanning (part_001 lines 136-157).
h5SelectCamera(id) ==
  /\ h5HasPermission = "true"
  /\ Len(h5Cameras) > 1
  /\ id \in deviceIdsOf(h5Cameras)
  /\ h5SelectedCamera' = id
  /\ h5Picked' = TRUE
  /\ UNCHANGED <<videoDevices, zxPending, zxHasPermission, zxCameras,
                 zxSelectedCamera, h5Pending, h5HasPermission, h5Cameras,
                 zxPicked>>
  /\ UNCHANGED cothers

\* One back camera; a front and a back camera.
OneCamera == <<[deviceId |-> DeviceIds[1], label |-> BackLabel]>>

TwoCameras == <<[deviceId |-> DeviceIds[1], label |-> FrontLabel],
                [deviceId |-> DeviceIds[2], label |-> BackLabel]>>

\* Both components after their first render; no device list was seen yet.
CIdle ==
  /\ zxPending = TRUE
  /\ zxHasPermission = "null"
  /\ zxCameras = <<>>
  /\ zxSelectedCamera = ""
  /\ h5Pending = TRUE
  /\ h5HasPermission = "null"
  /\ h5Cameras = <<>>
  /\ h5SelectedCamera = ""
  /\ zxPicked = FALSE
  /\ h5Picked = FALSE

CInit == CIdle /\ videoDevices \in DeviceLists

CNext ==
  \/ zxInitializeScanner
  \/ h5GetCamerasResolves
  \/ h5GetCamerasRejects
  \/ zxInitializeScannerRejects
  \/ zxTryAgain
  \/ h5TryAgain
  \/ \E k \in 1 .. MaxDevices : zxSelectCamera(DeviceIds[k])
  \/ \E k \in 1 .. MaxDevices : h5SelectCamera(DeviceIds[k])

(***************************************************************************)
(* The manual-loop ZXing component                                         *)
(* (src/app/components/BarcodeScanner.tsx, lines 1-386)                    *)
(*                                                                         *)
(* Every startScanner call i creates one reader (reader i) and opens at    *)
(* most one stream (stream i): the first getUserMedia's, or the            *)
(* fallback's when the first one was rejected.                             *)
(*                                                                         *)
(* The browser and the ZXing library are the environment:                  *)
(*   - getUserMedia settles at any later time, with a live stream or an    *)
(*     error;                                                              *)
(*   - the video fires loadedmetadata once it has a live srcObject, and    *)
(*     calls the handler installed at that time;                           *)
(*   - decodeOnce retries a frame without a code by itself and settles     *)
(*     with a result, with a fault, or, once reset() was called on its     *)
(*     reader, with NotFoundException;                                     *)
(*   - a requestAnimationFrame callback runs at any later time;            *)
(*   - React drops state updates of an unmounted component and has         *)
(*     detached videoRef when the effect cleanup runs.                     *)
(***************************************************************************)
Calls == 1 .. MaxStarts

\* videoRef.current: the <video> of the main render (lines 302-309).
videoRefCurrent == mounted /\ hasPermission = "true"

\* streamRef.current?.active
streamActive(ref, tr) == ref # 0 /\ tr[ref] = "live"

\* The guard of decodeLoop, lines 151-157, negated: the iteration goes on.
decodeLoopGuard(reader, video, ref, tr) ==
  reader # 0 /\ video /\ streamActive(ref, tr)

\* The calls with a decode loop alive: a decodeOnce outstanding or a frame
\* callback scheduled.
loopAlive == {i \in Calls : pc[i] \in {"decoding", "raf"}}

\* The calls whose getUserMedia is pending.
openPending == {i \in Calls : pc[i] \in {"gum", "fbgum"}}

\* A callback of the props is invoked in this step.
callbackInvoked == cbAfterStop' = (cbAfterStop \/ stopped)

\* The tracks left as they are.
keepTracks(tr) == tr

\* `stream.getTracks().forEach((track) => track.stop())`, line 57.
stopTracks(tr) == "stopped"

\* initializeScanner, lines 54-60: getUserMedia resolves with a live
\* stream, its tracks are stopped in the same continuation and
\* enumerateDevices is called.
permissionStreamAcquired ==
  /\ initPending /\ permTrack = "none"
  /\ permTrack' = stopTracks("live")
  /\ UNCHANGED zstate
  /\ UNCHANGED zhist
  /\ UNCHANGED zout
  /\ UNCHANGED zcam
  /\ UNCHANGED zuse
  /\ UNCHANGED zothers

\* initializeScanner, lines 60-80: enumerateDevices resolves with a device
\* list that is not empty.
initializeScannerOk ==
  /\ initPending /\ permTrack # "none"
  /\ Len(videoDevices) > 0
  /\ cameras' = IF mounted THEN videoDevices ELSE cameras
  /\ selectedCamera' = IF mounted THEN defaultCamera(videoDevices)
                                  ELSE selectedCamera
  /\ initPending' = FALSE
  /\ hasPermission' = IF mounted THEN "true" ELSE hasPermission
  /\ UNCHANGED <<mounted, isIOSDevice, isScanning, error, readerRef,
                 resetReaders, streamRef, track, srcObject, onloadedmetadata,
                 nCalls, pc, decReader>>
  /\ UNCHANGED zhist
  /\ UNCHANGED zout
  /\ UNCHANGED zperm
  /\ UNCHANGED requestedCamera
  /\ UNCHANGED zuse
  /\ UNCHANGED zothers

\* The catch of initializeScanner that starts the next initializeScanner
\* by itself.
initializeScannerFailsRetrying ==
  /\ initPending
  /\ permTrack' = "none"
  /\ hasPermission' = IF mounted THEN "false" ELSE hasPermission
  /\ error' = IF mounted THEN "set" ELSE error
  /\ UNCHANGED <<mounted, isIOSDevice, initPending, isScanning, readerRef,
                 resetReaders, streamRef, track, srcObject, onloadedmetadata,
                 nCalls, pc, decReader>>
  /\ UNCHANGED zhist
  /\ UNCHANGED zout
  /\ UNCHANGED zcam
  /\ UNCHANGED zuse
  /\ UNCHANGED zothers

\* The catch of initializeScanner reached after setCameras.
initializeScannerFailsWithDevices ==
  /\ initPending
  /\ initPending' = FALSE
  /\ hasPermission' = IF mounted THEN "false" ELSE hasPermission
  /\ error' = IF mounted THEN "set" ELSE error
  /\ cameras' = videoDevices
  /\ UNCHANGED <<selectedCamera, requestedCamera>>
  /\ UNCHANGED <<mounted, isIOSDevice, isScanning, readerRef, resetReaders,
                 streamRef, track, srcObject, onloadedmetadata, nCalls, pc,
                 decReader>>
  /\ UNCHANGED zhist
  /\ UNCHANGED zout
  /\ UNCHANGED zperm
  /\ UNCHANGED zuse
  /\ UNCHANGED zothers

\* initializeScanner, lines 81-86: getUserMedia or enumerateDevices was
\* rejected, or no videoinput device was found (lines 63-65).
initializeScannerFails ==
  /\ initPending
  /\ initPending' = FALSE
  /\ hasPermission' = IF mounted THEN "false" ELSE hasPermission
  /\ error' = IF mounted THEN "set" ELSE error
  /\ UNCHANGED <<mounted, isIOSDevice, isScanning, readerRef, resetReaders,
                 streamRef, track, srcObject, onloadedmetadata, nCalls, pc,
                 decReader>>
  /\ UNCHANGED zhist
  /\ UNCHANGED zout
  /\ UNCHANGED zperm
  /\ UNCHANGED zcam
  /\ UNCHANGED zuse
  /\ UNCHANGED zothers

\* The Try Again button, lines 249-258: a new initializeScanner.
tryAgain ==
  /\ mounted /\ hasPermission = "false"
  /\ hasPermission' = "null"
  /\ error' = "null"
  /\ initPending' = TRUE
  /\ permTrack' = "none"
  /\ triedAgain' = TRUE
  /\ UNCHANGED <<mounted, isIOSDevice, isScanning, readerRef, resetReaders,
                 streamRef, track, srcObject, onloadedmetadata, nCalls, pc,
                 decReader>>
  /\ UNCHANGED zhist
  /\ UNCHANGED zout
  /\ UNCHANGED zcam
  /\ UNCHANGED <<nStops, stopCalls>>
  /\ UNCHANGED zothers

\* The device the constraints of lines 113-125 name: none on iOS
\* (facingMode) and none with an empty selectedCamera (deviceId undefined).
constraintsDeviceId(ios, selected) == IF ios THEN "" ELSE selected

\* The camera selector, lines 280-295: rendered with more than one camera
\* while isScanning is false.
setSelectedCamera(id) ==
  /\ mounted /\ hasPermission = "true"
  /\ Len(cameras) > 1 /\ ~isScanning
  /\ \E k \in 1 .. Len(cameras) : cameras[k].deviceId = id
  /\ selectedCamera' = id
  /\ UNCHANGED <<cameras, requestedCamera>>
  /\ UNCHANGED zstate
  /\ UNCHANGED zperm
  /\ UNCHANGED zhist
  /\ UNCHANGED zout
  /\ UNCHANGED zuse
  /\ UNCHANGED zothers

\* startScanner up to its first await, lines 89-130. The Start button is
\* rendered while isScanning is false (lines 345-351).
startScanner ==
  /\ mounted /\ hasPermission = "true" /\ ~isScanning
  /\ nCalls < MaxStarts
  /\ videoRefCurrent
  /\ nCalls' = nCalls + 1
  /\ readerRef' = nCalls + 1
  /\ pc' = [pc EXCEPT ![nCalls + 1] = "gum"]
  /\ stopped' = FALSE
  /\ requestedCamera' =
       [requestedCamera EXCEPT ![nCalls + 1] =
          constraintsDeviceId(isIOSDevice, selectedCamera)]
  /\ UNCHANGED <<mounted, isIOSDevice, hasPermission, initPending, isScanning,
                 error, resetReaders, streamRef, track, srcObject,
                 onloadedmetadata, decReader>>
  /\ UNCHANGED <<cbAfterStop, pendingAtStop, closedChains, loopedAfterClose>>
  /\ UNCHANGED zout
  /\ UNCHANGED zperm
  /\ UNCHANGED <<cameras, selectedCamera>>
  /\ UNCHANGED zuse
  /\ UNCHANGED zothers

\* getUserMedia resolves, lines 130-144. With videoRef.current null,
\* `video.srcObject = stream` throws a TypeError into the catch of lines
\* 183-207, which calls onScanError and, the error not being an
\* OverconstrainedError, does not retry.
getUserMediaResolves(i) ==
  /\ pc[i] = "gum"
  /\ track' = [track EXCEPT ![i] = "live"]
  /\ streamRef' = i
  /\ IF videoRefCurrent
       THEN /\ srcObject' = i
            /\ onloadedmetadata' = i
            /\ pc' = [pc EXCEPT ![i] = "meta"]
            /\ UNCHANGED <<error, cbAfterStop, reported>>
       ELSE /\ pc' = [pc EXCEPT ![i] = "done"]
            /\ error' = IF mounted THEN "set" ELSE error
            /\ callbackInvoked
            /\ reported' = reported \cup {i}
            /\ UNCHANGED <<srcObject, onloadedmetadata>>
  /\ UNCHANGED <<mounted, isIOSDevice, hasPermission, initPending, isScanning,
                 readerRef, resetReaders, nCalls, decReader>>
  /\ UNCHANGED <<stopped, pendingAtStop, closedChains, loopedAfterClose>>
  /\ UNCHANGED <<openError, nRetries, retryFailed, faulted>>
  /\ UNCHANGED zperm
  /\ UNCHANGED zcam
  /\ UNCHANGED zuse
  /\ UNCHANGED zothers

\* The condition of line 190: the fallback is tried on iOS only.
retriesOpen(ios, name) == ios /\ name = "OverconstrainedError"

\* getUserMedia is rejected: the catch of lines 183-190, which reports the
\* error before it looks at what the error is.
getUserMediaRejects(i, name) ==
  /\ pc[i] = "gum"
  /\ error' = IF mounted THEN "set" ELSE error
  /\ callbackInvoked
  /\ reported' = reported \cup {i}
  /\ openError' = [openError EXCEPT ![i] = name]
  /\ IF retriesOpen(isIOSDevice, name)
       THEN /\ pc' = [pc EXCEPT ![i] = "fbgum"]
            /\ nRetries' = [nRetries EXCEPT ![i] = @ + 1]
       ELSE /\ pc' = [pc EXCEPT ![i] = "done"]
            /\ UNCHANGED nRetries
  /\ UNCHANGED <<mounted, isIOSDevice, hasPermission, initPending, isScanning,
                 readerRef, resetReaders, streamRef, track, srcObject,
                 onloadedmetadata, nCalls, decReader>>
  /\ UNCHANGED <<stopped, pendingAtStop, closedChains, loopedAfterClose>>
  /\ UNCHANGED <<retryFailed, faulted>>
  /\ UNCHANGED zperm
  /\ UNCHANGED zcam
  /\ UNCHANGED zuse
  /\ UNCHANGED zothers

\* The video fires loadedmetadata and the installed handler calls
\* video.play(), lines 140-144.
loadedMetadata(i) ==
  /\ pc[i] = "meta"
  /\ onloadedmetadata = i
  /\ streamActive(srcObject, track)
  /\ pc' = [pc EXCEPT ![i] = "play"]
  /\ UNCHANGED <<mounted, isIOSDevice, hasPermission, initPending, isScanning,
                 error, readerRef, resetReaders, streamRef, track, srcObject,
                 onloadedmetadata, nCalls, decReader>>
  /\ UNCHANGED zhist
  /\ UNCHANGED zout
  /\ UNCHANGED zperm
  /\ UNCHANGED zcam
  /\ UNCHANGED zuse
  /\ UNCHANGED zothers

\* One iteration of decodeLoop up to its await, lines 150-160, for the loop
\* of call i, in the state the step leaves.
decodeLoop(i) ==
  IF decodeLoopGuard(readerRef, videoRefCurrent, streamRef, track)
    THEN /\ pc' = [pc EXCEPT ![i] = "decoding"]
         /\ decReader' = [decReader EXCEPT ![i] = readerRef]
         /\ loopedAfterClose' = (loopedAfterClose \/ i \in closedChains)
         /\ UNCHANGED closedChains
    ELSE /\ pc' = [pc EXCEPT ![i] = "done"]
         /\ closedChains' = closedChains \ {i}
         /\ UNCHANGED <<decReader, loopedAfterClose>>

\* play() settles either way (`.then(resolve).catch(resolve)`): lines
\* 146-147 and the first decodeLoop() of line 182.
playSettles(i) ==
  /\ pc[i] = "play"
  /\ isScanning' = IF mounted THEN TRUE ELSE isScanning
  /\ decodeLoop(i)
  /\ UNCHANGED <<mounted, isIOSDevice, hasPermission, initPending, error,
                 readerRef, resetReaders, streamRef, track, srcObject,
                 onloadedmetadata, nCalls>>
  /\ UNCHANGED <<stopped, cbAfterStop, pendingAtStop>>
  /\ UNCHANGED zout
  /\ UNCHANGED zperm
  /\ UNCHANGED zcam
  /\ UNCHANGED zuse
  /\ UNCHANGED zothers

\* How an outstanding decodeOnce can settle.
decodeOutcomes(i) ==
  IF decReader[i] \in resetReaders
    THEN {"NotFoundException"}
    ELSE {"fault"} \cup
         (IF streamActive(srcObject, track) THEN {"result"} ELSE {})

\* decodeOnce settles, lines 160-178: onScanSuccess on a result, nothing
\* but a console.log on an exception; then the next frame is requested
\* when the held stream is active.
decodeOnceSettles(i, outcome) ==
  /\ pc[i] = "decoding"
  /\ outcome \in decodeOutcomes(i)
  /\ IF outcome = "result" THEN callbackInvoked ELSE UNCHANGED cbAfterStop
  /\ IF streamActive(streamRef, track)
       THEN /\ pc' = [pc EXCEPT ![i] = "raf"]
            /\ loopedAfterClose' = (loopedAfterClose \/ i \in closedChains)
            /\ UNCHANGED closedChains
       ELSE /\ pc' = [pc EXCEPT ![i] = "done"]
            /\ closedChains' = closedChains \ {i}
            /\ UNCHANGED loopedAfterClose
  /\ UNCHANGED <<mounted, isIOSDevice, hasPermission, initPending, isScanning,
                 error, readerRef, resetReaders, streamRef, track, srcObject,
                 onloadedmetadata, nCalls, decReader>>
  /\ faulted' = IF outcome = "fault" THEN faulted \cup {i} ELSE faulted
  /\ UNCHANGED <<stopped, pendingAtStop>>
  /\ UNCHANGED <<openError, nRetries, retryFailed, reported>>
  /\ UNCHANGED zperm
  /\ UNCHANGED zcam
  /\ UNCHANGED zuse
  /\ UNCHANGED zothers

\* The frame callback of line 177 runs.
animationFrame(i) ==
  /\ pc[i] = "raf"
  /\ decodeLoop(i)
  /\ UNCHANGED <<mounted, isIOSDevice, hasPermission, initPending, isScanning,
                 error, readerRef, resetReaders, streamRef, track, srcObject,
                 onloadedmetadata, nCalls>>
  /\ UNCHANGED <<stopped, cbAfterStop, pendingAtStop>>
  /\ UNCHANGED zout
  /\ UNCHANGED zperm
  /\ UNCHANGED zcam
  /\ UNCHANGED zuse
  /\ UNCHANGED zothers

\* The fallback getUserMedia resolves, lines 193-199.
fallbackResolves(i) ==
  /\ pc[i] = "fbgum"
  /\ track' = [track EXCEPT ![i] = "live"]
  /\ streamRef' = i
  /\ IF videoRefCurrent
       THEN /\ srcObject' = i
            /\ pc' = [pc EXCEPT ![i] = "fbplay"]
       ELSE /\ pc' = [pc EXCEPT ![i] = "done"]
            /\ UNCHANGED srcObject
  /\ UNCHANGED <<mounted, isIOSDevice, hasPermission, initPending, isScanning,
                 error, readerRef, resetReaders, onloadedmetadata, nCalls,
                 decReader>>
  /\ UNCHANGED zhist
  /\ UNCHANGED zout
  /\ UNCHANGED zperm
  /\ UNCHANGED zcam
  /\ UNCHANGED zuse
  /\ UNCHANGED zothers

\* The fallback getUserMedia is rejected, lines 203-205.
fallbackRejects(i) ==
  /\ pc[i] = "fbgum"
  /\ pc' = [pc EXCEPT ![i] = "done"]
  /\ retryFailed' = [retryFailed EXCEPT ![i] = TRUE]
  /\ UNCHANGED <<mounted, isIOSDevice, hasPermission, initPending, isScanning,
                 error, readerRef, resetReaders, streamRef, track, srcObject,
                 onloadedmetadata, nCalls, decReader>>
  /\ UNCHANGED zhist
  /\ UNCHANGED <<openError, nRetries, reported, faulted>>
  /\ UNCHANGED zperm
  /\ UNCHANGED zcam
  /\ UNCHANGED zuse
  /\ UNCHANGED zothers

\* `await videoRef.current.play()` of the fallback settles, lines 199-205.
fallbackPlaySettles(i, played) ==
  /\ pc[i] = "fbplay"
  /\ pc' = [pc EXCEPT ![i] = "done"]
  /\ isScanning' = IF played /\ mounted THEN TRUE ELSE isScanning
  /\ error' = IF played /\ mounted THEN "null" ELSE error
  /\ UNCHANGED <<mounted, isIOSDevice, hasPermission, initPending, readerRef,
                 resetReaders, streamRef, track, srcObject, onloadedmetadata,
                 nCalls, decReader>>
  /\ UNCHANGED zhist
  /\ UNCHANGED zout
  /\ UNCHANGED zperm
  /\ UNCHANGED zcam
  /\ UNCHANGED zuse
  /\ UNCHANGED zothers

\* A ref that keeps what it held.
keptRef(ref) == ref

\* `streamRef.current = null` and `readerRef.current = null`, lines 214
\* and 220.
clearedRef(ref) == 0

\* The body of stopScanner, lines 210-230; video says whether
\* videoRef.current is set.
stopScannerBody(video, rendered) ==
  /\ track' = IF streamRef # 0
                THEN [track EXCEPT ![streamRef] = "stopped"] ELSE track
  /\ nStops' = IF streamRef # 0
                 THEN [nStops EXCEPT ![streamRef] = @ + 1] ELSE nStops
  /\ stopCalls' = stopCalls + 1
  /\ streamRef' = clearedRef(streamRef)
  /\ resetReaders' = IF readerRef # 0
                       THEN resetReaders \cup {readerRef} ELSE resetReaders
  /\ readerRef' = clearedRef(readerRef)
  /\ srcObject' = IF video THEN 0 ELSE srcObject
  /\ isScanning' = IF rendered THEN FALSE ELSE isScanning
  /\ stopped' = TRUE
  /\ pendingAtStop' = pendingAtStop \cup openPending
  /\ closedChains' = IF streamRef # 0
                       THEN closedChains \cup loopAlive ELSE closedChains
  /\ UNCHANGED <<isIOSDevice, hasPermission, initPending, error,
                 onloadedmetadata, nCalls, pc, decReader>>
  /\ UNCHANGED <<cbAfterStop, loopedAfterClose>>

\* The Stop button, rendered while isScanning is true (lines 352-358).
stopScanner ==
  /\ mounted /\ isScanning
  /\ stopScannerBody(videoRefCurrent, TRUE)
  /\ UNCHANGED mounted
  /\ UNCHANGED zout
  /\ UNCHANGED zperm
  /\ UNCHANGED zcam
  /\ UNCHANGED triedAgain
  /\ UNCHANGED zothers

\* The component unmounts: the cleanup of lines 44-46 calls stopScanner,
\* with videoRef.current already null; its setIsScanning(false) is dropped.
unmount ==
  /\ mounted
  /\ mounted' = FALSE
  /\ stopScannerBody(FALSE, FALSE)
  /\ UNCHANGED zout
  /\ UNCHANGED zperm
  /\ UNCHANGED zcam
  /\ UNCHANGED triedAgain
  /\ UNCHANGED zothers

\* A track of an open stream ends by itself (the camera is unplugged, the
\* browser revokes it): the stream is no longer active.
streamEnds(s) ==
  /\ track[s] = "live"
  /\ track' = [track EXCEPT ![s] = "ended"]
  /\ closedChains' = IF s = streamRef
                       THEN closedChains \cup loopAlive ELSE closedChains
  /\ UNCHANGED <<mounted, isIOSDevice, hasPermission, initPending, isScanning,
                 error, readerRef, resetReaders, streamRef, srcObject,
                 onloadedmetadata, nCalls, pc, decReader>>
  /\ UNCHANGED <<stopped, cbAfterStop, pendingAtStop, loopedAfterClose>>
  /\ UNCHANGED zout
  /\ UNCHANGED zperm
  /\ UNCHANGED zcam
  /\ UNCHANGED zuse
  /\ UNCHANGED zothers

\* The component after its first render and the mount effect (lines 28-47).
ZInit ==
  /\ mounted = TRUE
  /\ isIOSDevice \in BOOLEAN
  /\ hasPermission = "null"
  /\ initPending = TRUE
  /\ permTrack = "none"
  /\ isScanning = FALSE
  /\ error = "null"
  /\ readerRef = 0
  /\ resetReaders = {}
  /\ streamRef = 0
  /\ track = [i \in Calls |-> "none"]
  /\ srcObject = 0
  /\ onloadedmetadata = 0
  /\ nCalls = 0
  /\ pc = [i \in Calls |-> "idle"]
  /\ decReader = [i \in Calls |-> 0]
  /\ stopped = FALSE
  /\ cbAfterStop = FALSE
  /\ pendingAtStop = {}
  /\ closedChains = {}
  /\ loopedAfterClose = FALSE
  /\ openError = [i \in Calls |-> "none"]
  /\ nRetries = [i \in Calls |-> 0]
  /\ retryFailed = [i \in Calls |-> FALSE]
  /\ reported = {}
  /\ faulted = {}
  /\ cameras = <<>>
  /\ selectedCamera = ""
  /\ requestedCamera = [i \in Calls |-> ""]
  /\ triedAgain = FALSE
  /\ nStops = [i \in Calls |-> 0]
  /\ stopCalls = 0

ZNext ==
  \/ permissionStreamAcquired
  \/ initializeScannerOk
  \/ initializeScannerFails
  \/ tryAgain
  \/ startScanner
  \/ \E i \in Calls : getUserMediaResolves(i)
  \/ \E i \in Calls, name \in {"OverconstrainedError", "NotReadableError"} :
       getUserMediaRejects(i, name)
  \/ \E i \in Calls : loadedMetadata(i)
  \/ \E i \in Calls : playSettles(i)
  \/ \E i \in Calls, outcome \in {"result", "fault", "NotFoundException"} :
       decodeOnceSettles(i, outcome)
  \/ \E i \in Calls : animationFrame(i)
  \/ \E i \in Calls : fallbackResolves(i)
  \/ \E i \in Calls : fallbackRejects(i)
  \/ \E i \in Calls, played \in BOOLEAN : fallbackPlaySettles(i, played)
  \/ stopScanner
  \/ unmount
  \/ \E s \in Calls : streamEnds(s)

(***************************************************************************)
(* The Quagga/jsQR component (src/unnamed/part_000)                        *)
(*                                                                         *)
(* Every startScanner call k opens at most one stream of its own (stream   *)
(* k, in qrcode mode); in the other modes Quagga opens the camera inside   *)
(* Quagga.init. scannerRef, videoRef and canvasRef belong to the main      *)
(* render. The clock stands still here: the debounce over time is the      *)
(* subject of SpecDebounce.                                                *)
(***************************************************************************)
\* scannerRef.current, videoRef.current, canvasRef.current.
qRefs == qMounted /\ qHasPermission = "true"

ScanModes == {"barcode", "qrcode", "both"}

\* What scanFrame finds in a frame: the video is not ready (line 125), jsQR
\* finds no code (line 140), or jsQR returns a code with this text.
Frames == {"notready", "nocode"} \cup Codes

\* `video.readyState === video.HAVE_ENOUGH_DATA` and `if (qrCode)`.
isCode(frame) == frame \in Codes

\* A loop that goes on only after a frame with a code.
reschedulesOnCode(frame) == isCode(frame)

\* Line 145: the next scanFrame is requested whatever the frame held.
reschedules(frame) == TRUE

\* checkPermission, lines 55-60.
checkPermissionResolves ==
  /\ qPermPending
  /\ qPermPending' = FALSE
  /\ qHasPermission' = IF qMounted THEN "true" ELSE qHasPermission
  /\ UNCHANGED <<qMounted, qIsScanning, qError, scanMode, qStreamRef, qTrack,
                 qSrcObject, qrAnimationRef, quaggaRunning, qnCalls, qpc>>
  /\ UNCHANGED qhist
  /\ UNCHANGED dvars
  /\ UNCHANGED qsess
  /\ UNCHANGED qHandlers
  /\ UNCHANGED qothers

\* checkPermission, lines 61-66.
checkPermissionRejects ==
  /\ qPermPending
  /\ qPermPending' = FALSE
  /\ qHasPermission' = IF qMounted THEN "false" ELSE qHasPermission
  /\ qError' = IF qMounted THEN "set" ELSE qError
  /\ UNCHANGED <<qMounted, qIsScanning, scanMode, qStreamRef, qTrack,
                 qSrcObject, qrAnimationRef, quaggaRunning, qnCalls, qpc>>
  /\ UNCHANGED qhist
  /\ UNCHANGED dvars
  /\ UNCHANGED qsess
  /\ UNCHANGED qHandlers
  /\ UNCHANGED qothers

\* The Try Again button, lines 292-301.
qTryAgain ==
  /\ qMounted /\ qHasPermission = "false"
  /\ qHasPermission' = "null"
  /\ qError' = "null"
  /\ qPermPending' = TRUE
  /\ UNCHANGED <<qMounted, qIsScanning, scanMode, qStreamRef, qTrack,
                 qSrcObject, qrAnimationRef, quaggaRunning, qnCalls, qpc>>
  /\ UNCHANGED qhist
  /\ UNCHANGED dvars
  /\ UNCHANGED qsess
  /\ UNCHANGED qHandlers
  /\ UNCHANGED qothers

\* The mode buttons, lines 268-273; they are disabled while isScanning is
\* true, so the stopScanner branch of handleModeChange is not taken.
handleModeChange(mode) ==
  /\ qMounted /\ qHasPermission = "true" /\ ~qIsScanning
  /\ scanMode' = mode
  /\ UNCHANGED <<qMounted, qHasPermission, qPermPending, qIsScanning, qError,
                 qStreamRef, qTrack, qSrcObject, qrAnimationRef,
                 quaggaRunning, qnCalls, qpc>>
  /\ UNCHANGED qhist
  /\ UNCHANGED dvars
  /\ UNCHANGED qsess
  /\ UNCHANGED qHandlers
  /\ UNCHANGED qothers

\* startScanner up to the first await, lines 234-246, with startQRScanner
\* lines 94-98 or startBarcodeScanner lines 170-204. The Start button is
\* rendered while isScanning is false.
qStartScanner ==
  /\ qMounted /\ qHasPermission = "true" /\ ~qIsScanning
  /\ qnCalls < MaxStarts
  /\ qRefs
  /\ qnCalls' = qnCalls + 1
  /\ qError' = "null"
  /\ qStopped' = FALSE
  /\ awaitingFirst' = (awaitingFirst \/ qStopped)
  /\ UNCHANGED firstDropped
  /\ qpc' = [qpc EXCEPT ![qnCalls + 1] =
               IF scanMode = "qrcode" THEN "gum" ELSE "init"]
  /\ UNCHANGED <<qMounted, qHasPermission, qPermPending, qIsScanning, scanMode,
                 qStreamRef, qTrack, qSrcObject, qrAnimationRef,
                 quaggaRunning>>
  /\ UNCHANGED qhist
  /\ UNCHANGED dvars
  /\ UNCHANGED qHandlers
  /\ UNCHANGED qothers

\* startQRScanner has returned: startScanner goes on with
\* setIsScanning(true), line 250.
qSetIsScanning(k) ==
  /\ qIsScanning' = IF qMounted THEN TRUE ELSE qIsScanning
  /\ qEntered' = IF qMounted THEN qEntered \cup {k} ELSE qEntered

\* getUserMedia of startQRScanner resolves, lines 98-110. With
\* videoRef.current null, `video.srcObject = stream` throws into the catch
\* of lines 150-153, and startQRScanner returns normally.
qrGetUserMediaResolves(k) ==
  /\ qpc[k] = "gum"
  /\ qTrack' = [qTrack EXCEPT ![k] = "live"]
  /\ qStreamRef' = k
  /\ IF qRefs
       THEN /\ qSrcObject' = k
            /\ qpc' = [qpc EXCEPT ![k] = "play"]
            /\ UNCHANGED <<qError, qIsScanning, qEntered>>
       ELSE /\ qpc' = [qpc EXCEPT ![k] = "done"]
            /\ qError' = IF qMounted THEN "set" ELSE qError
            /\ qSetIsScanning(k)
            /\ UNCHANGED qSrcObject
  /\ UNCHANGED <<qMounted, qHasPermission, qPermPending, scanMode,
                 qrAnimationRef, quaggaRunning, qnCalls>>
  /\ UNCHANGED <<lastFrame, qOpenFailed, qReported>>
  /\ UNCHANGED dvars
  /\ UNCHANGED qsess
  /\ UNCHANGED qHandlers
  /\ UNCHANGED qothers

\* getUserMedia of startQRScanner is rejected: the catch of lines 150-153
\* sets the error and swallows the exception, so startScanner goes on.
qrGetUserMediaRejects(k) ==
  /\ qpc[k] = "gum"
  /\ qpc' = [qpc EXCEPT ![k] = "done"]
  /\ qError' = IF qMounted THEN "set" ELSE qError
  /\ qOpenFailed' = qOpenFailed \cup {k}
  /\ qSetIsScanning(k)
  /\ UNCHANGED <<qMounted, qHasPermission, qPermPending, scanMode, qStreamRef,
                 qTrack, qSrcObject, qrAnimationRef, quaggaRunning, qnCalls>>
  /\ UNCHANGED <<lastFrame, qReported>>
  /\ UNCHANGED dvars
  /\ UNCHANGED qsess
  /\ UNCHANGED qHandlers
  /\ UNCHANGED qothers

\* How `await video.play()` and the canvas.getContext of line 113 turn
\* out: play() is rejected; play() resolves and getContext returns null;
\* play() resolves and there is a 2d context.
PlayOutcomes == {"rejected", "nocontext", "resolved"}

\* `await video.play()` settles, lines 110-148 and 250: the first
\* scanFrame is requested when play() resolved, canvasRef.current is set
\* and it has a 2d context; without a context startQRScanner returns at
\* line 114; after a rejection, or with canvasRef.current null, the catch
\* of lines 150-153 sets the error.
qrPlaySettles(k, played) ==
  /\ qpc[k] = "play"
  /\ IF played = "rejected" \/ ~qRefs
       THEN /\ qpc' = [qpc EXCEPT ![k] = "done"]
            /\ qError' = IF qMounted THEN "set" ELSE qError
            /\ UNCHANGED qrAnimationRef
       ELSE IF played = "nocontext"
         THEN /\ qpc' = [qpc EXCEPT ![k] = "done"]
              /\ UNCHANGED <<qError, qrAnimationRef>>
         ELSE /\ qrAnimationRef' = k
              /\ qpc' = [qpc EXCEPT ![k] = "raf"]
              /\ UNCHANGED qError
  /\ qSetIsScanning(k)
  /\ UNCHANGED <<qMounted, qHasPermission, qPermPending, scanMode, qStreamRef,
                 qTrack, qSrcObject, quaggaRunning, qnCalls>>
  /\ UNCHANGED <<lastFrame, qOpenFailed, qReported>>
  /\ UNCHANGED dvars
  /\ UNCHANGED qsess
  /\ UNCHANGED qHandlers
  /\ UNCHANGED qothers

\* History kept with a call handleScanResult(code, format): whether the
\* first text decoded in a session that followed a stop was forwarded.
firstOfSession(code) ==
  IF awaitingFirst /\ code # ""
    THEN /\ awaitingFirst' = FALSE
         /\ firstDropped' =
              (firstDropped \/ ~Accepts(code, now, lastCodeRef, lastCodeTimeRef))
    ELSE UNCHANGED <<awaitingFirst, firstDropped>>

\* The guard of scanFrame, lines 117-123, negated: the frame is looked at.
scanFrameGuard == qRefs /\ streamActive(qStreamRef, qTrack)

\* One run of scanFrame, lines 116-146, on a frame.
scanFrame(k, frame) ==
  /\ qpc[k] = "raf"
  /\ IF scanFrameGuard
       THEN /\ IF isCode(frame)
                 THEN handleScanResultBody(frame) /\ firstOfSession(frame)
                 ELSE UNCHANGED dvars /\ UNCHANGED <<awaitingFirst, firstDropped>>
            /\ lastFrame' = IF isCode(frame) THEN "code" ELSE "miss"
            /\ IF reschedules(frame)
                 THEN /\ qrAnimationRef' = k
                      /\ UNCHANGED qpc
                 ELSE /\ qpc' = [qpc EXCEPT ![k] = "done"]
                      /\ UNCHANGED qrAnimationRef
       ELSE /\ qpc' = [qpc EXCEPT ![k] = "done"]
            /\ UNCHANGED <<qrAnimationRef, lastFrame>>
            /\ UNCHANGED dvars
            /\ UNCHANGED <<awaitingFirst, firstDropped>>
  /\ UNCHANGED <<qMounted, qHasPermission, qPermPending, qIsScanning, qError,
                 scanMode, qStreamRef, qTrack, qSrcObject, quaggaRunning,
                 qnCalls>>
  /\ UNCHANGED <<qOpenFailed, qReported, qEntered>>
  /\ UNCHANGED qStopped
  /\ UNCHANGED qHandlers
  /\ UNCHANGED qothers

\* The callback of Quagga.init runs, lines 203-223 and 250-257: without an
\* error the detection handler is registered and Quagga started; with one
\* the promise is rejected into the catch of startScanner.
quaggaInitSettles(k, ok) ==
  /\ qpc[k] = "init"
  /\ qpc' = [qpc EXCEPT ![k] = "done"]
  /\ IF ok
       THEN /\ quaggaRunning' = TRUE
            /\ qHandlers' = qHandlers + 1
            /\ qSetIsScanning(k)
            /\ UNCHANGED <<qError, qOpenFailed, qReported>>
       ELSE /\ qError' = IF qMounted THEN "set" ELSE qError
            /\ qOpenFailed' = qOpenFailed \cup {k}
            /\ qReported' = qReported \cup {k}
            /\ UNCHANGED <<quaggaRunning, qHandlers, qIsScanning, qEntered>>
  /\ UNCHANGED <<qMounted, qHasPermission, qPermPending, scanMode, qStreamRef,
                 qTrack, qSrcObject, qrAnimationRef, qnCalls>>
  /\ UNCHANGED lastFrame
  /\ UNCHANGED dvars
  /\ UNCHANGED qsess
  /\ UNCHANGED qothers

\* Quagga calls every handler subscribed with onDetected (lines 213-220)
\* with a result: one handler for each startBarcodeScanner that got past
\* Quagga.init since the last offDetected.
quaggaDetected(code) ==
  /\ quaggaRunning
  /\ IF code # ""
       THEN /\ Len(attempts) + qHandlers <= MaxAttempts
            /\ LET after == handleScanResultTimes(qHandlers, code, now,
                               [last |-> lastCodeRef, lastTime |-> lastCodeTimeRef,
                                attempts |-> attempts]) IN
                 /\ lastCodeRef' = after.last
                 /\ lastCodeTimeRef' = after.lastTime
                 /\ attempts' = after.attempts
            /\ UNCHANGED now
            /\ firstOfSession(code)
       ELSE UNCHANGED dvars /\ UNCHANGED <<awaitingFirst, firstDropped>>
  /\ UNCHANGED qstate
  /\ UNCHANGED qhist
  /\ UNCHANGED qStopped
  /\ UNCHANGED qothers

\* The body of stopScanner, lines 260-265, with stopQRScanner (156-167)
\* and stopBarcodeScanner (226-231); video says whether videoRef.current
\* is set, rendered whether the component is mounted, so that its
\* setIsScanning(false) takes effect. cancelAnimationFrame removes the
\* request stored last.
qStopScannerBody(video, rendered) ==
  /\ qpc' = IF qrAnimationRef # 0 /\ qpc[qrAnimationRef] = "raf"
              THEN [qpc EXCEPT ![qrAnimationRef] = "done"] ELSE qpc
  /\ qTrack' = IF qStreamRef # 0
                 THEN [qTrack EXCEPT ![qStreamRef] = "stopped"] ELSE qTrack
  /\ qStreamRef' = 0
  /\ qSrcObject' = IF video THEN 0 ELSE qSrcObject
  /\ quaggaRunning' = FALSE
  /\ qHandlers' = 0
  /\ qIsScanning' = IF rendered THEN FALSE ELSE qIsScanning
  /\ qStopped' = TRUE
  /\ UNCHANGED <<awaitingFirst, firstDropped>>
  /\ UNCHANGED <<qHasPermission, qPermPending, qError, scanMode,
                 qrAnimationRef, qnCalls>>
  /\ UNCHANGED qhist
  /\ UNCHANGED dvars
  /\ UNCHANGED qothers

\* The Stop button, rendered while isScanning is true.
qStopScanner ==
  /\ qMounted /\ qIsScanning
  /\ qStopScannerBody(qRefs, TRUE)
  /\ UNCHANGED qMounted

\* The component unmounts: the cleanup of lines 47-49 calls stopScanner,
\* whose setIsScanning(false) is dropped.
qUnmount ==
  /\ qMounted
  /\ qMounted' = FALSE
  /\ qStopScannerBody(FALSE, FALSE)

\* A track of an open stream ends by itself.
qStreamEnds(k) ==
  /\ qTrack[k] = "live"
  /\ qTrack' = [qTrack EXCEPT ![k] = "ended"]
  /\ UNCHANGED <<qMounted, qHasPermission, qPermPending, qIsScanning, qError,
                 scanMode, qStreamRef, qSrcObject, qrAnimationRef,
                 quaggaRunning, qnCalls, qpc>>
  /\ UNCHANGED qhist
  /\ UNCHANGED dvars
  /\ UNCHANGED qsess
  /\ UNCHANGED qHandlers
  /\ UNCHANGED qothers

\* The component after its first render and the mount effect (lines 25-50).
QInit ==
  /\ qMounted = TRUE
  /\ qHasPermission = "null"
  /\ qPermPending = TRUE
  /\ qIsScanning = FALSE
  /\ qError = "null"
  /\ scanMode = "both"
  /\ qStreamRef = 0
  /\ qTrack = [k \in Calls |-> "none"]
  /\ qSrcObject = 0
  /\ qrAnimationRef = 0
  /\ quaggaRunning = FALSE
  /\ qHandlers = 0
  /\ qnCalls = 0
  /\ qpc = [k \in Calls |-> "idle"]
  /\ lastFrame = "none"
  /\ qOpenFailed = {}
  /\ qReported = {}
  /\ qEntered = {}
  /\ qStopped = FALSE
  /\ awaitingFirst = FALSE
  /\ firstDropped = FALSE

QNext ==
  \/ checkPermissionResolves
  \/ checkPermissionRejects
  \/ qTryAgain
  \/ \E mode \in ScanModes : handleModeChange(mode)
  \/ qStartScanner
  \/ \E k \in Calls : qrGetUserMediaResolves(k)
  \/ \E k \in Calls : qrGetUserMediaRejects(k)
  \/ \E k \in Calls, played \in PlayOutcomes : qrPlaySettles(k, played)
  \/ \E k \in Calls, frame \in Frames : scanFrame(k, frame)
  \/ \E k \in Calls, ok \in BOOLEAN : quaggaInitSettles(k, ok)
  \/ \E code \in Codes : quaggaDetected(code)
  \/ qStopScanner
  \/ qUnmount
  \/ \E k \in Calls : qStreamEnds(k)

(***************************************************************************)
(* The format reported with a decode result                                *)
(* (src/app/components/BarcodeScanner.tsx lines 159-167,                   *)
(*  src/unnamed/part_001 lines 71-74, src/unnamed/part_000 lines 213-220)  *)
(***************************************************************************)
\* a || b on strings: undefined and "" are falsy; "" stands for both.
orElse(value, default) == IF value = "" THEN default ELSE value

\* The names of the numeric enum BarcodeFormat of @zxing/library, from 0.
BarcodeFormatNames ==
  << "AZTEC", "CODABAR", "CODE_39", "CODE_93", "CODE_128", "DATA_MATRIX",
     "EAN_8", "EAN_13", "ITF", "MAXICODE", "PDF_417", "QR_CODE", "RSS_14",
     "RSS_EXPANDED", "UPC_A", "UPC_E", "UPC_EAN_EXTENSION" >>

\* BarcodeFormat[n]: the reverse mapping of the enum, undefined off the enum.
BarcodeFormat(n) ==
  IF n + 1 \in DOMAIN BarcodeFormatNames THEN BarcodeFormatNames[n + 1] ELSE ""

\* BarcodeFormat[result.getBarcodeFormat()] || "UNKNOWN", lines 162-163.
zxFormat(n) == orElse(BarcodeFormat(n), "UNKNOWN")

\* decodedResult.result.format?.formatName || "UNKNOWN", part_001 line 72.
h5Format(formatName) == orElse(formatName, "UNKNOWN")

\* result.codeResult.format || "BARCODE", part_000 line 217.
quaggaFormat(format) == orElse(format, "BARCODE")

\* The values of getBarcodeFormat(): EAN_13, QR_CODE, and one off the enum.
ZXingFormats == {7, 11, 17}

\* The format names of html5-qrcode; "" when format or its name is missing.
Html5Formats == {"", "EAN_13", "QR_CODE"}

\* The format names of Quagga; "" when codeResult.format is missing.
QuaggaFormats == {"", "ean_13", "code_128"}

\* A call of onScanSuccess(text, format); named tells whether the decoder
\* had a name for the symbology.
forwarded(component, text, format, named) ==
  formatLog' = Append(formatLog,
    [component |-> component, text |-> text, format |-> format, named |-> named])

\* decodeLoop, lines 159-167: a result of decodeOnce is forwarded.
zxDecoded(text, n) ==
  /\ Len(formatLog) < MaxAttempts
  /\ forwarded("zxing", text, zxFormat(n), BarcodeFormat(n) # "")
  /\ UNCHANGED dvars
  /\ UNCHANGED fothers

\* The success callback of html5QrCode.start, part_001 lines 71-74.
h5Decoded(text, formatName) ==
  /\ Len(formatLog) < MaxAttempts
  /\ forwarded("html5", text, h5Format(formatName), formatName # "")
  /\ UNCHANGED dvars
  /\ UNCHANGED fothers

\* The handler of Quagga.onDetected, part_000 lines 213-220, with the
\* handleScanResult it calls: an accepted text reaches onScanSuccess.
quaggaOnDetected(code, format) ==
  /\ Len(formatLog) < MaxAttempts
  /\ IF code # ""
       THEN /\ handleScanResultBody(code)
            /\ IF Accepts(code, now, lastCodeRef, lastCodeTimeRef)
                 THEN forwarded("quagga", code, quaggaFormat(format), format # "")
                 ELSE UNCHANGED formatLog
       ELSE UNCHANGED dvars /\ UNCHANGED formatLog
  /\ UNCHANGED fothers

\* scanFrame of startQRScanner, part_000 lines 140-142: jsQR found a code
\* and handleScanResult(qrCode.data, "QR_CODE") is called, whatever the
\* data; an accepted text reaches onScanSuccess with that format.
scanFrameDecoded(data) ==
  /\ Len(formatLog) < MaxAttempts
  /\ handleScanResultBody(data)
  /\ IF Accepts(data, now, lastCodeRef, lastCodeTimeRef)
       THEN forwarded("quagga", data, "QR_CODE", TRUE)
       ELSE UNCHANGED formatLog
  /\ UNCHANGED fothers

FInit == formatLog = <<>>

FNext ==
  \/ \E text \in Codes, n \in ZXingFormats : zxDecoded(text, n)
  \/ \E text \in Codes, name \in Html5Formats : h5Decoded(text, name)
  \/ \E code \in Codes, format \in QuaggaFormats : quaggaOnDetected(code, format)
  \/ \E data \in Codes : scanFrameDecoded(data)

(***************************************************************************)
(* The page (src/app/page.tsx) wired to the scanner                        *)
(***************************************************************************)
DuplicateMs == 3000

ToastMs == 2000

Barcodes == Codes \ {""}

\* The deadlines a timer can have: the instants of the clock, 2000 ms on.
Deadlines == {T0 + k * TickMs + ToastMs : k \in 0 .. MaxTicks}

\* At most MaxTimers setTimeout callbacks are pending at a time.
MaxTimers == 3

RECURSIVE pendingIn(_, _)
pendingIn(t, deadlines) ==
  IF deadlines = {} THEN 0
  ELSE LET deadline == CHOOSE d \in deadlines : TRUE IN
         t[deadline] + pendingIn(t, deadlines \ {deadline})

\* The number of setTimeout callbacks that are pending.
pendingTimers == pendingIn(timers, Deadlines)

\* The page's history holds at most MaxItems items.
MaxItems == 2

\* isDuplicate of handleScanSuccess, lines 49-53, over the scannedItems of
\* the render that made the function.
isDuplicate(items, barcode, t) ==
  \E i \in DOMAIN items :
    items[i].barcode = barcode /\ t - items[i].timestamp < DuplicateMs

\* The call of startScanner that the next click on Start makes, 0 when the
\* bound on the calls is reached.
pageNextCall ==
  IF \E k \in Calls : pagePc[k] = "idle"
    THEN CHOOSE k \in Calls :
           pagePc[k] = "idle" /\ \A j \in Calls : j < k => pagePc[j] # "idle"
    ELSE 0

\* startScanner of the scanner up to its first await (BarcodeScanner.tsx
\* lines 89-130), run by a click on Start, which is rendered while
\* isScanning is false: readerRef is set and getUserMedia is called.  The
\* decodeLoop this call defines calls the onScanSuccess of the render in
\* which Start was clicked, that is the handleScanSuccess whose scannedItems
\* is the list of that render.
pageStartScanner ==
  /\ ~scannerRunning
  /\ pageNextCall # 0
  /\ pagePc' = [pagePc EXCEPT ![pageNextCall] = "gum"]
  /\ closureItems' = [closureItems EXCEPT ![pageNextCall] = scannedItems]
  /\ pageReader' = TRUE
  /\ UNCHANGED <<pstate, scannerRunning, pageStream, lastAcceptedAt>>
  /\ UNCHANGED dvars
  /\ UNCHANGED pothers

\* getUserMedia of call k settles (line 130).  Resolved: the stream is kept
\* in streamRef and video.srcObject and the call waits for loadedmetadata
\* with its handler in video.onloadedmetadata (lines 131-144).  Rejected: the
\* call ends in the catch (lines 186-191).
pageGetUserMediaSettles(k, resolved) ==
  /\ pagePc[k] = "gum"
  /\ IF resolved
       THEN /\ pagePc' = [pagePc EXCEPT ![k] = "meta"]
            /\ pageStream' = k
       ELSE /\ pagePc' = [pagePc EXCEPT ![k] = "done"]
            /\ UNCHANGED pageStream
  /\ UNCHANGED <<pstate, scannerRunning, closureItems, pageReader,
                 lastAcceptedAt>>
  /\ UNCHANGED dvars
  /\ UNCHANGED pothers

\* The video fires loadedmetadata for the stream of call k, whose handler is
\* the one installed, and the handler calls video.play() (lines 141-143).
pageLoadedMetadata(k) ==
  /\ pagePc[k] = "meta"
  /\ pageStream = k
  /\ pagePc' = [pagePc EXCEPT ![k] = "play"]
  /\ UNCHANGED <<pstate, scannerRunning, closureItems, pageReader, pageStream,
                 lastAcceptedAt>>
  /\ UNCHANGED dvars
  /\ UNCHANGED pothers

\* The guard of decodeLoop, lines 151-157, and of its rescheduling.
pageLoopGoesOn == pageReader /\ pageStream # 0

\* play() of call k settles, either way (line 142): setIsScanning(true) and
\* the first decodeLoop (lines 147-183).
pagePlaySettles(k) ==
  /\ pagePc[k] = "play"
  /\ scannerRunning' = TRUE
  /\ pagePc' = [pagePc EXCEPT ![k] = IF pageLoopGoesOn THEN "decoding"
                                                       ELSE "done"]
  /\ UNCHANGED <<pstate, closureItems, pageReader, pageStream, lastAcceptedAt>>
  /\ UNCHANGED dvars
  /\ UNCHANGED pothers

\* handleScanSuccess, lines 47-82, called by the decodeLoop of call k whose
\* decodeOnce gave a result (BarcodeScanner.tsx lines 160-167); the loop then
\* asks for the next animation frame (lines 177-179).
handleScanSuccess(k, barcode) ==
  /\ pagePc[k] = "decoding"
  /\ pageStream # 0
  /\ Len(scannedItems) < MaxItems
  /\ pendingTimers < MaxTimers
  /\ IF isDuplicate(closureItems[k], barcode, now)
       THEN UNCHANGED <<pstate, lastAcceptedAt>>
       ELSE LET newItem == [barcode |-> barcode, timestamp |-> now] IN
              /\ lastScan' = <<newItem>>
              /\ scannedItems' = <<newItem>> \o scannedItems
              /\ showSuccess' = TRUE
              /\ timers' = [timers EXCEPT ![now + ToastMs] = @ + 1]
              /\ lastAcceptedAt' = now
  /\ pagePc' = [pagePc EXCEPT ![k] = "raf"]
  /\ UNCHANGED <<scannerRunning, closureItems, pageReader, pageStream>>
  /\ UNCHANGED dvars
  /\ UNCHANGED pothers

\* decodeOnce of the loop of call k rejects (lines 168-173): no barcode in
\* the frame, or the reader was reset by stopScanner.  The loop asks for the
\* next animation frame while the stream of streamRef is active.
pageDecodeRejected(k) ==
  /\ pagePc[k] \in {"decoding", "closing"}
  /\ pagePc' = [pagePc EXCEPT ![k] = IF pageStream # 0 THEN "raf" ELSE "done"]
  /\ UNCHANGED <<pstate, scannerRunning, closureItems, pageReader, pageStream,
                 lastAcceptedAt>>
  /\ UNCHANGED dvars
  /\ UNCHANGED pothers

\* The animation frame of the loop of call k: decodeLoop again, lines
\* 150-159.
pageAnimationFrame(k) ==
  /\ pagePc[k] = "raf"
  /\ pagePc' = [pagePc EXCEPT ![k] = IF pageLoopGoesOn THEN "decoding"
                                                       ELSE "done"]
  /\ UNCHANGED <<pstate, scannerRunning, closureItems, pageReader, pageStream,
                 lastAcceptedAt>>
  /\ UNCHANGED dvars
  /\ UNCHANGED pothers

\* stopScanner of the scanner (lines 210-230), run by a click on Stop, which
\* is rendered while isScanning is true: the tracks are stopped, the reader
\* is reset, the refs and video.srcObject are cleared.  A decodeOnce that is
\* outstanding rejects; the calls that still wait go on waiting.
pageStopScanner ==
  /\ scannerRunning
  /\ scannerRunning' = FALSE
  /\ pageReader' = FALSE
  /\ pageStream' = 0
  /\ pagePc' = [k \in Calls |-> IF pagePc[k] = "decoding" THEN "closing"
                                                         ELSE pagePc[k]]
  /\ UNCHANGED <<pstate, closureItems, lastAcceptedAt>>
  /\ UNCHANGED dvars
  /\ UNCHANGED pothers

\* One callback of setTimeout, line 81, run when its delay has passed; the
\* other callbacks, of the same deadline too, stay pending.
hideSuccess(deadline) ==
  /\ timers[deadline] > 0
  /\ deadline <= now
  /\ showSuccess' = FALSE
  /\ timers' = [timers EXCEPT ![deadline] = @ - 1]
  /\ UNCHANGED <<scannedItems, lastScan, lastAcceptedAt>>
  /\ UNCHANGED pscan
  /\ UNCHANGED dvars
  /\ UNCHANGED pothers

\* A clearHistory that empties the list only.
clearHistoryKeepingLastScan ==
  /\ scannedItems' = <<>>
  /\ UNCHANGED <<lastScan, showSuccess, timers, lastAcceptedAt>>
  /\ UNCHANGED pscan
  /\ UNCHANGED dvars
  /\ UNCHANGED pothers

\* clearHistory, lines 84-87.
clearHistory ==
  /\ scannedItems' = <<>>
  /\ lastScan' = <<>>
  /\ UNCHANGED <<showSuccess, timers, lastAcceptedAt>>
  /\ UNCHANGED pscan
  /\ UNCHANGED dvars
  /\ UNCHANGED pothers

\* Time passes; a timer that is due runs before time goes on.
pageTick ==
  /\ now + TickMs <= T0 + MaxTicks * TickMs
  /\ \A deadline \in Deadlines : timers[deadline] > 0 => deadline > now
  /\ now' = now + TickMs
  /\ UNCHANGED <<lastCodeRef, lastCodeTimeRef, attempts>>
  /\ UNCHANGED pvars
  /\ UNCHANGED pothers

PInit ==
  /\ scannedItems = <<>>
  /\ lastScan = <<>>
  /\ showSuccess = FALSE
  /\ timers = [deadline \in Deadlines |-> 0]
  /\ scannerRunning = FALSE
  /\ pagePc = [k \in Calls |-> "idle"]
  /\ closureItems = [k \in Calls |-> <<>>]
  /\ pageReader = FALSE
  /\ pageStream = 0
  /\ lastAcceptedAt = 0

PNext ==
  \/ pageStartScanner
  \/ \E k \in Calls, resolved \in BOOLEAN : pageGetUserMediaSettles(k, resolved)
  \/ \E k \in Calls : pageLoadedMetadata(k)
  \/ \E k \in Calls : pagePlaySettles(k)
  \/ \E k \in Calls, barcode \in Barcodes : handleScanSuccess(k, barcode)
  \/ \E k \in Calls : pageDecodeRejected(k)
  \/ \E k \in Calls : pageAnimationFrame(k)
  \/ pageStopScanner
  \/ \E deadline \in Deadlines : hideSuccess(deadline)
  \/ clearHistory
  \/ pageTick

(***************************************************************************)
(* The specifications                                                      *)
(***************************************************************************)
\* The components that a specification leaves idle.
Idle == FInit /\ PInit

InitDebounce ==
  Idle /\ DInit /\ ZInit /\ isIOSDevice = FALSE /\ CIdle /\ videoDevices = <<>> /\ QInit

SpecDebounce == InitDebounce /\ [][DNext]_vars

InitZXing ==
  Idle /\ ZInit /\ DInit /\ CIdle /\ videoDevices \in {<<>>, OneCamera} /\ QInit

SpecZXing == InitZXing /\ [][ZNext]_vars

\* The ZXing component on a device with two cameras, where the camera
\* selector is rendered.
InitSwitch == Idle /\ ZInit /\ DInit /\ CIdle /\ videoDevices = TwoCameras /\ QInit

SwitchNext ==
  \/ ZNext
  \/ \E k \in 1 .. MaxDevices : setSelectedCamera(DeviceIds[k])

SpecSwitch == InitSwitch /\ [][SwitchNext]_vars

InitCameras == Idle /\ CInit /\ DInit /\ ZInit /\ isIOSDevice = FALSE /\ QInit

SpecCameras == InitCameras /\ [][CNext]_vars

InitQuagga ==
  Idle /\ QInit /\ DInit /\ ZInit /\ isIOSDevice = FALSE /\ CIdle /\ videoDevices = <<>>

SpecQuagga == InitQuagga /\ [][QNext]_vars

InitFormat ==
  FInit /\ PInit /\ DInit /\ ZInit /\ isIOSDevice = FALSE /\ CIdle
  /\ videoDevices = <<>> /\ QInit

SpecFormat == InitFormat /\ [][FNext]_vars

InitPage ==
  PInit /\ FInit /\ DInit /\ ZInit /\ isIOSDevice = FALSE /\ CIdle
  /\ videoDevices = <<>> /\ QInit

SpecPage == InitPage /\ [][PNext]_vars

(***************************************************************************)
(* Properties of the debounce (SpecDebounce).                              *)
(***************************************************************************)
Attempt == DOMAIN attempts

\* The forwarded attempts before attempt i.
ForwardedBefore(i) == {k \in Attempt : k < i /\ attempts[k].fwd}

\* The last forwarded attempt before attempt i, 0 when there is none.
LastForwardedBefore(i) ==
  IF ForwardedBefore(i) = {} THEN 0
  ELSE CHOOSE k \in ForwardedBefore(i) : \A m \in ForwardedBefore(i) : m <= k

\* The last accepted text and timestamp as attempt i finds them.
LastTextBefore(i) ==
  IF LastForwardedBefore(i) = 0 THEN "" ELSE attempts[LastForwardedBefore(i)].code

LastTimeBefore(i) ==
  IF LastForwardedBefore(i) = 0 THEN 0 ELSE attempts[LastForwardedBefore(i)].at

\* The debounce state is the last forwarded attempt's text and timestamp.
DebounceStateIsLastForwarded ==
  LET n == LastForwardedBefore(Len(attempts) + 1) IN
    /\ lastCodeRef = (IF n = 0 THEN "" ELSE attempts[n].code)
    /\ lastCodeTimeRef = (IF n = 0 THEN 0 ELSE attempts[n].at)

\* C3, as claimed: a non-empty decode result is forwarded to onScanSuccess
\* if and only if its text differs from the last accepted text or at least
\* 2000 ms have elapsed since the last accepted timestamp.
C3_ForwardedIffDiffersOrAtLeastWindow ==
  \A i \in Attempt :
    attempts[i].code # "" =>
      (attempts[i].fwd <=>
         \/ attempts[i].code # LastTextBefore(i)
         \/ attempts[i].at - LastTimeBefore(i) >= DebounceMs)

\* C3, amended: a decode result is forwarded to onScanSuccess if and only if
\* its text is not empty and either differs from the last accepted text or
\* arrives more than 2000 ms after the last accepted timestamp; on
\* acceptance the debounce state becomes the new text and timestamp.
C3_ForwardedIffNonEmptyDiffersOrMoreThanWindow ==
  /\ \A i \in Attempt :
       attempts[i].fwd <=>
         /\ attempts[i].code # ""
         /\ \/ attempts[i].code # LastTextBefore(i)
            \/ attempts[i].at - LastTimeBefore(i) > DebounceMs
  /\ DebounceStateIsLastForwarded

\* C3, witness: the same text arrives exactly 2000 ms after it was accepted
\* and is not forwarded.
C3_Witness ==
  \E i, j \in Attempt :
    /\ i < j
    /\ i = LastForwardedBefore(j)
    /\ attempts[j].code = attempts[i].code
    /\ attempts[j].at - attempts[i].at = DebounceMs
    /\ ~attempts[j].fwd

\* C4, as claimed: onScanSuccess is invoked with one text T at most once
\* within any window of 2000 ms, whatever is decoded in between: two
\* forwarded results with the same text are at least 2000 ms apart.
C4_AtMostOncePerTextPerWindow ==
  \A i, j \in Attempt :
    (i < j /\ attempts[i].fwd /\ attempts[j].fwd
       /\ attempts[i].code = attempts[j].code)
      => attempts[j].at - attempts[i].at >= DebounceMs

\* C5, as claimed: when attempt i returns T and the next attempt returns T
\* again within the debounce window of attempt i, the next attempt's result
\* is not forwarded.
C5_NextSameTextWithinWindowNotForwarded ==
  \A i \in Attempt :
    (i + 1 \in Attempt
       /\ attempts[i + 1].code = attempts[i].code
       /\ attempts[i + 1].at - attempts[i].at <= DebounceMs)
      => ~attempts[i + 1].fwd

\* C5, amended: when attempt i's result T is forwarded and the next attempt
\* returns T again within 2000 ms of attempt i, only attempt i's result is
\* forwarded.
C5_NextSameTextAfterForwardedNotForwarded ==
  \A i \in Attempt :
    (i + 1 \in Attempt
       /\ attempts[i].fwd
       /\ attempts[i + 1].code = attempts[i].code
       /\ attempts[i + 1].at - attempts[i].at <= DebounceMs)
      => ~attempts[i + 1].fwd

\* C5, witness: a forwarded result is followed, later but within the
\* window, by the same text, which is dropped.
C5_Witness ==
  \E i \in Attempt :
    /\ i + 1 \in Attempt
    /\ attempts[i].fwd
    /\ attempts[i + 1].code = attempts[i].code
    /\ attempts[i + 1].at > attempts[i].at
    /\ attempts[i + 1].at - attempts[i].at <= DebounceMs
    /\ ~attempts[i + 1].fwd

\* The last forwarded attempt before attempt j whose text is that of
\* attempt j, 0 when there is none.
LastAcceptedOfTextBefore(j) ==
  LET same == {k \in ForwardedBefore(j) : attempts[k].code = attempts[j].code} IN
    IF same = {} THEN 0 ELSE CHOOSE k \in same : \A m \in same : m <= k

\* C6, as claimed: when attempt i returns T and a later attempt j returns T
\* more than 2000 ms after T was last accepted, the results of attempt i and
\* of attempt j are both forwarded to onScanSuccess.
C6_SameTextAfterWindowBothForwarded ==
  \A i, j \in Attempt :
    (/\ i < j
     /\ attempts[j].code = attempts[i].code
     /\ LastAcceptedOfTextBefore(j) # 0
     /\ attempts[j].at - attempts[LastAcceptedOfTextBefore(j)].at > DebounceMs)
      => (attempts[i].fwd /\ attempts[j].fwd)

\* C6, amended: when attempt i returns T and its result is forwarded, and a
\* later attempt j returns T more than 2000 ms after T was last accepted,
\* the results of attempt i and of attempt j are both forwarded to
\* onScanSuccess.
C6_SameTextAfterWindowForwardedAgain ==
  \A i, j \in Attempt :
    (/\ i < j
     /\ attempts[i].fwd
     /\ attempts[j].code = attempts[i].code
     /\ LastAcceptedOfTextBefore(j) # 0
     /\ attempts[j].at - attempts[LastAcceptedOfTextBefore(j)].at > DebounceMs)
      => (attempts[i].fwd /\ attempts[j].fwd)

\* C6, witness: T is forwarded, held in frame (a suppressed attempt in
\* between), and forwarded again once more than 2000 ms have passed.
C6_Witness ==
  \E i, j \in Attempt :
    /\ i + 1 < j
    /\ attempts[i].fwd /\ attempts[j].fwd
    /\ \A k \in Attempt : (i <= k /\ k <= j) => attempts[k].code = attempts[i].code
    /\ \A k \in Attempt : (i < k /\ k < j) => ~attempts[k].fwd
    /\ attempts[j].at - attempts[i].at > DebounceMs

(***************************************************************************)
(* Properties of the manual-loop ZXing component (SpecZXing).              *)
(***************************************************************************)
\* C1, as claimed: after stopScanner returns, neither onScanSuccess nor
\* onScanError is invoked until startScanner is called again, whatever was
\* outstanding when it was called.
C1_NoCallbackAfterStop == ~cbAfterStop

\* C2, as claimed: at most one stream opened by startScanner of a scanner
\* instance has live tracks at any time.
C2_AtMostOneLiveStream ==
  Cardinality({i \in Calls : track[i] = "live"}) <= 1

\* C7, as claimed: at most one decodeOnce is outstanding at any time.
C7_AtMostOneDecodeOutstanding ==
  Cardinality({i \in Calls : pc[i] = "decoding"}) <= 1

\* C8, as claimed: once the held stream was closed by stopScanner or became
\* inactive by itself, a decode loop that was running starts no further
\* decode attempt and schedules no further frame callback.
C8_LoopEndsOnceStreamClosed == ~loopedAfterClose

\* C9, as claimed: when stopScanner ran while a camera open was pending,
\* then once that open has settled its call holds no stream, has left no
\* live stream behind, and has no decode attempt or frame callback
\* scheduled.
C9_NothingLeftOfOpenPendingAtStop ==
  \A i \in pendingAtStop :
    pc[i] \notin {"gum", "fbgum"} =>
      /\ streamRef # i
      /\ track[i] # "live"
      /\ pc[i] \notin {"decoding", "raf"}

\* C10, as claimed: after the component has unmounted, no stream the
\* scanner acquired is live.
C10_NoLiveStreamAfterUnmount ==
  ~mounted => \A i \in Calls : track[i] # "live"

\* The calls whose first camera open failed with OverconstrainedError.
Overconstrained == {i \in Calls : openError[i] = "OverconstrainedError"}

\* C11, as claimed: when the first camera open of startScanner fails with
\* OverconstrainedError, exactly one retry with the facing hint alone is
\* issued, and onScanError is invoked for that call only if the retry has
\* failed as well.
C11_RetriedOnceBeforeFailureSurfaced ==
  \A i \in Overconstrained :
    /\ nRetries[i] = 1
    /\ i \in reported => retryFailed[i]

\* C12, as claimed: on any device, a startScanner call whose first open
\* failed with OverconstrainedError and whose retry did not fail has issued
\* exactly one retry, and once it has settled with its stream live and
\* nothing else has started or stopped, the session is Active: the stream
\* is held, isScanning is true and the error is cleared.
C12_OverconstrainedRecoveryReachesActive ==
  \A i \in Overconstrained :
    (pc[i] = "done" /\ ~retryFailed[i]) =>
      /\ nRetries[i] = 1
      /\ (mounted /\ ~stopped /\ nCalls = 1 /\ track[i] = "live") =>
           (streamRef = i /\ isScanning /\ error = "null")

\* C13, as claimed: at most one camera open request of startScanner is in
\* flight at any time.
C13_AtMostOneOpenInFlight == Cardinality(openPending) <= 1

\* C15, as claimed: every decode loop whose decodeOnce failed with an
\* unexpected error (not NotFoundException) has reported it through
\* onScanError.
C15_DecoderFaultReported == faulted \subseteq reported


\* C19: the stream acquired by the permission check is released at once.
\* No track of it is ever live when control returns to the browser: its
\* tracks are stopped while enumerateDevices is pending, when hasPermission
\* is set and after the check has settled; and the step that receives it
\* leaves streamRef alone.
C19_PermissionStreamReleasedAtOnce ==
  /\ [](permTrack # "live")
  /\ []((initPending /\ permTrack # "none") => permTrack = "stopped")
  /\ [][permTrack' # permTrack => streamRef' = streamRef]_vars

\* C19, witness: the permission stream was acquired and its tracks are
\* stopped while the device enumeration is still pending and hasPermission
\* is not yet set.
C19_Witness ==
  initPending /\ permTrack = "stopped" /\ hasPermission = "null"

\* C20: while hasPermission is false, no permission request and no camera
\* open is pending, and the only step that issues a request or leaves the
\* failed state is a click on Try Again.
C20_NoRequestAfterPermissionFailureUntilTryAgain ==
  /\ [](hasPermission = "false" => (~initPending /\ openPending = {}))
  /\ [][(hasPermission = "false" /\ ~tryAgain) =>
          UNCHANGED <<hasPermission, initPending, permTrack, nCalls, pc>>]_vars

\* C20, witness: the permission check has failed after its stream was
\* released (no camera was found), and the failure is shown.
C20_Witness ==
  hasPermission = "false" /\ error = "set" /\ ~initPending /\ permTrack = "stopped"


(***************************************************************************)
(* Properties of the default camera selection (SpecCameras).               *)
(***************************************************************************)
\* The devices of a list whose label names a back camera.
BackCameras(devices) ==
  {k \in 1 .. Len(devices) : isBackCamera(devices[k])}

\* C17: in the ZXing components, once the device list (not empty) has been
\* taken over and until the user picks another camera, the selected camera
\* is a device whose label contains "back", "rear" or "environment" in any
\* case when there is one, and the last enumerated device otherwise.
C17_DefaultIsBackCameraOrLast ==
  (zxHasPermission = "true" /\ ~zxPicked) =>
    IF BackCameras(zxCameras) # {}
      THEN \E k \in BackCameras(zxCameras) :
             zxSelectedCamera = zxCameras[k].deviceId
      ELSE zxSelectedCamera = zxCameras[Len(zxCameras)].deviceId

\* C17, witness: the two examples of the claim. [Front Camera, Back Camera]
\* has selected the second device, and so have two devices without labels.
C17_Witness ==
  /\ zxHasPermission = "true"
  /\ ~zxPicked
  /\ Len(zxCameras) = 2
  /\ zxSelectedCamera = zxCameras[2].deviceId
  /\ \/ /\ zxCameras[1].label = <<"F", "r", "o", "n", "t", " ", "C", "a", "m", "e", "r", "a">>
        /\ zxCameras[2].label = <<"B", "a", "c", "k", " ", "C", "a", "m", "e", "r", "a">>
     \/ /\ zxCameras[1].label = <<>>
        /\ zxCameras[2].label = <<>>

\* C18, as claimed: in the html5-qrcode component, when no enumerated
\* camera has a label containing "back", "rear" or "environment", the
\* selected camera, until the user picks another, is the last enumerated
\* device.
C18_Html5DefaultIsLastWithoutBackCamera ==
  (h5HasPermission = "true" /\ ~h5Picked /\ BackCameras(h5Cameras) = {}) =>
    h5SelectedCamera = h5Cameras[Len(h5Cameras)].deviceId


(***************************************************************************)
(* Properties of the Quagga/jsQR component (SpecQuagga).                   *)
(***************************************************************************)
\* C14, as claimed: a startScanner call whose camera open failed has
\* reported the failure through onScanError and has not set isScanning.
C14_OpenFailureReportedAndNotScanning ==
  \A k \in qOpenFailed : k \in qReported /\ k \notin qEntered

\* A frame without a code: the video was not ready or jsQR found nothing.
Misses == {"notready", "nocode"}

\* C16: a run of scanFrame on a frame without a code invokes no
\* onScanError, leaves the error state and the debounce state as they are,
\* and leaves the loop with its next scanFrame requested.
C16_MissIsSilentAndLoopGoesOn ==
  [][\A k \in Calls, frame \in Misses :
       (scanFrameGuard /\ scanFrame(k, frame)) =>
         /\ qReported' = qReported
         /\ qError' = qError
         /\ UNCHANGED <<lastCodeRef, lastCodeTimeRef, attempts>>
         /\ qpc'[k] = "raf" /\ qrAnimationRef' = k]_vars

\* C16, witness: a text was accepted, then a frame without a code was
\* scanned; the loop of that call is still scheduled and the debounce state
\* still holds the text.
C16_Witness ==
  /\ lastFrame = "miss"
  /\ lastCodeRef = "A"
  /\ \E k \in Calls : qpc[k] = "raf" /\ qrAnimationRef = k
  /\ qError = "null"


(***************************************************************************)
(* Properties of the permission flow, of stopScanner and of the camera     *)
(* selector of the manual-loop ZXing component (SpecZXing, SpecSwitch).    *)
(***************************************************************************)
\* C21: while the permission check has failed, the device list is empty, no
\* camera is selected, no request is pending and no track of the
\* permission stream is live; a Try Again starts one new check from that
\* clean state; and once hasPermission is true the devices are populated
\* with the enumerated list and its default camera is selected.
C21_FailedIsCleanAndRetryPopulates ==
  /\ hasPermission = "false" =>
       /\ cameras = <<>> /\ selectedCamera = ""
       /\ ~initPending /\ permTrack # "live" /\ streamRef = 0
  /\ (hasPermission = "null" /\ mounted) =>
       (initPending /\ cameras = <<>> /\ selectedCamera = "")
  /\ hasPermission = "true" =>
       /\ cameras = videoDevices /\ Len(cameras) > 0
       /\ selectedCamera = defaultCamera(cameras)

\* C21, witness: the permission was granted on a Try Again, and the
\* devices are populated.
C21_Witness ==
  triedAgain /\ hasPermission = "true" /\ Len(cameras) > 0 /\ selectedCamera # ""

\* C23: no track is stopped twice, and a stopScanner that finds nothing
\* held (after a stopScanner, or before any start has stored anything)
\* stops no track, resets no reader and leaves the refs, the error and
\* isScanning = false as they are (the second of two calls in a row finds
\* isScanning false, as the first call left it).
C23_StopScannerIdempotent ==
  /\ [](\A i \in Calls : nStops[i] <= 1)
  /\ [][(stopCalls' # stopCalls /\ streamRef = 0 /\ readerRef = 0) =>
          /\ UNCHANGED <<track, nStops, resetReaders, streamRef, readerRef,
                         error, hasPermission, pc>>
          /\ ~isScanning => ~isScanning']_vars

\* C23, witness: stopScanner ran twice with no start in between (the Stop
\* button, then the unmount cleanup) on a scanner that had opened a
\* stream; its track was stopped once.
C23_Witness ==
  /\ stopCalls >= 2 /\ nCalls = 1 /\ ~mounted
  /\ nStops[1] = 1 /\ track[1] = "stopped"

\* C29, as claimed: whenever isScanning is true and the held stream is
\* active, a decodeOnce is outstanding or a decodeLoop iteration is
\* scheduled.
C29_ScanningMeansLoopAlive ==
  (isScanning /\ streamActive(streamRef, track)) => loopAlive # {}

\* C30, as claimed: on a device that is not iOS, whenever isScanning is
\* true the held stream was requested for the selected camera, and at most
\* one stream is open.
C30_StreamIsOfSelectedCamera ==
  ~isIOSDevice =>
    /\ (isScanning /\ streamActive(streamRef, track)) =>
         requestedCamera[streamRef] = selectedCamera
    /\ Cardinality({i \in Calls : track[i] = "live"}) <= 1


\* C22, as claimed: in every component that enumerates devices, once the
\* enumeration has settled on an empty device list, hasPermission is false:
\* neither still pending (null) nor granted.
C22_NoCameraEndsInFailedState ==
  Len(videoDevices) = 0 =>
    /\ ~zxPending => zxHasPermission = "false"
    /\ ~h5Pending => h5HasPermission = "false"


\* C24, as claimed: after stopScanner followed by startScanner, the first
\* text decoded in the new session is forwarded to onScanSuccess, whatever
\* was accepted in the session before.
C24_FirstTextOfNewSessionForwarded == ~firstDropped

\* The calls with a jsQR frame loop running.
qrLoops == {k \in Calls : qpc[k] = "raf"}

\* C27, as claimed: at most one decoder engine runs at any time: Quagga is
\* not running while a jsQR frame loop is scheduled, and at most one frame
\* loop is scheduled.
C27_AtMostOneDecoderEngine ==
  /\ ~(quaggaRunning /\ qrLoops # {})
  /\ Cardinality(qrLoops) <= 1


\* C25, as claimed: a decode result whose symbology has no name is
\* forwarded with the format "UNKNOWN".
C25_UnnamedFormatIsUnknown ==
  \A i \in DOMAIN formatLog :
    ~formatLog[i].named => formatLog[i].format = "UNKNOWN"

\* C26, as claimed: the history never holds two items with the same
\* barcode whose timestamps are less than 3000 ms apart.
C26_NoDuplicateWithinWindow ==
  \A i, j \in DOMAIN scannedItems :
    (i < j /\ scannedItems[i].barcode = scannedItems[j].barcode)
      => scannedItems[i].timestamp - scannedItems[j].timestamp >= DuplicateMs

\* C28, as claimed: showSuccess is true until 2000 ms after the most recent
\* accepted scan and false afterwards.
C28_ToastHiddenTwoSecondsAfterLastScan ==
  lastAcceptedAt # 0 =>
    /\ now < lastAcceptedAt + ToastMs => showSuccess
    /\ now > lastAcceptedAt + ToastMs => ~showSuccess

\* C31, as claimed: whenever isScanning is true the running decoder is the
\* one selected by scanMode: no Quagga in mode "qrcode", no jsQR frame loop
\* in the modes "barcode" and "both".
C31_RunningDecoderIsOfScanMode ==
  qIsScanning =>
    IF scanMode = "qrcode" THEN ~quaggaRunning ELSE qrLoops = {}

\* C32: a result rejected by the debounce, the empty text included, leaves
\* lastCodeRef and lastCodeTimeRef as they were; the debounce state is the
\* text and timestamp of the last accepted result, and a text equal to it
\* is accepted again once more than 2000 ms have passed since then.
C32_RejectedLeavesDebounceState ==
  /\ [](/\ DebounceStateIsLastForwarded
        /\ \A i \in Attempt :
             (/\ attempts[i].code # ""
              /\ attempts[i].code = LastTextBefore(i)
              /\ attempts[i].at - LastTimeBefore(i) > DebounceMs)
               => attempts[i].fwd)
  /\ [][(/\ Len(attempts') = Len(attempts) + 1
         /\ ~attempts'[Len(attempts')].fwd)
          => UNCHANGED <<lastCodeRef, lastCodeTimeRef>>]_vars

\* C32, witness: a text is accepted, an empty text is rejected, and the
\* first text, still within 2000 ms of its acceptance, is rejected against
\* the state the empty text left alone.
C32_Witness ==
  /\ Len(attempts) = 3
  /\ attempts[1].fwd /\ attempts[1].code # ""
  /\ attempts[2].code = "" /\ ~attempts[2].fwd
  /\ attempts[3].code = attempts[1].code /\ ~attempts[3].fwd
  /\ attempts[3].at > attempts[1].at
  /\ lastCodeRef = attempts[1].code
  /\ lastCodeTimeRef = attempts[1].at

\* C33: lastScan is null exactly when scannedItems is empty, and otherwise
\* it is the first, most recently added, element of scannedItems.
C33_LastScanIsHeadOfHistory ==
  /\ lastScan = <<>> <=> scannedItems = <<>>
  /\ scannedItems # <<>> => lastScan = <<scannedItems[1]>>

\* C33, witness: scans were accepted, the history was cleared, and scans
\* were accepted again: lastScan is the newer of two items added since.
C33_Witness ==
  /\ Len(scannedItems) = 2
  /\ lastAcceptedAt > scannedItems[2].timestamp
  /\ \E deadline \in Deadlines :
       timers[deadline] > 0 /\ deadline < scannedItems[2].timestamp + ToastMs
  /\ lastScan = <<scannedItems[1]>>

=============================================================================
